---- MODULE Spec2Model ----
(***************************************************************************)
(* A model of the klisp reader and evaluator of kakei, and of the program  *)
(* entry points that drive them (transform_table, the tests' eval_program).*)
(*                                                                         *)
(* Text is a sequence of one-character strings.  An i64 is held as the     *)
(* character sequence of its decimal numeral (what to_string prints): the  *)
(* language has no arithmetic, so only equality and printing read it.      *)
(***************************************************************************)
EXTENDS Integers, Sequences, FiniteSets, TLC

VARIABLES
    text,     \* the program text handed to the entry point
    nexpr,    \* how many expressions the text was assembled from
    pc,       \* "input", "loop" (in the for loop), "ok" or "err" (returned)
    entry,    \* which entry point was called
    sexprs,   \* the parsed top-level expressions
    idx,      \* the next one to evaluate
    env,      \* the environment the expressions share
    result,   \* the local `result`
    error,    \* <<>> or <<e>>, the Err returned
    log       \* history of the evaluator since the call

vars == <<text, nexpr, pc, entry, sexprs, idx, env, result, error, log>>

(***************************************************************************)
(* Characters                                                              *)
(***************************************************************************)
Alpha ==
    {"a", "b", "c", "d", "e", "f", "g", "h", "i", "j", "k", "l", "m",
     "n", "o", "p", "q", "r", "s", "t", "u", "v", "w", "x", "y", "z",
     "A", "B", "C", "D", "E", "F", "G", "H", "I", "J", "K", "L", "M",
     "N", "O", "P", "Q", "R", "S", "T", "U", "V", "W", "X", "Y", "Z"}

Digit == {"0", "1", "2", "3", "4", "5", "6", "7", "8", "9"}

Multispace == {" ", "\t", "\n", "\r"}

LineEnd == {"\n", "\r"}

SymbolFirst == Alpha \cup {"-", "+", "*", "/", ">", "<", "=", "?"}

\* The operator characters allowed inside a symbol as well.
\* C26_SymbolTokens fails for it.
SymbolRest_operators == SymbolFirst \cup Digit \cup {"!"}

SymbolRest == Alpha \cup Digit \cup {"-", "?", "!"}

QUOTE_SYMBOL == <<"q", "u", "o", "t", "e">>

(***************************************************************************)
(* String slices                                                           *)
(***************************************************************************)
Drop(input, n) == SubSeq(input, n + 1, Len(input))

Take(input, n) == SubSeq(input, 1, n)

starts_with(input, c) == Len(input) > 0 /\ input[1] = c

RECURSIVE SpanInFrom(_, _, _), SpanNotInFrom(_, _, _)
\* The scan of a prefix from position k on.
SpanInFrom(input, S, k) ==
    IF k > Len(input) \/ input[k] \notin S THEN k - 1
    ELSE SpanInFrom(input, S, k + 1)

SpanNotInFrom(input, S, k) ==
    IF k > Len(input) \/ input[k] \in S THEN k - 1
    ELSE SpanNotInFrom(input, S, k + 1)

\* Length of the longest prefix whose characters are all in S.
SpanIn(input, S) == SpanInFrom(input, S, 1)

\* Length of the longest prefix with no character in S.
SpanNotIn(input, S) == SpanNotInFrom(input, S, 1)

(***************************************************************************)
(* The syntax tree (parser/ast.rs)                                         *)
(***************************************************************************)
AtomNil == [at |-> "Nil"]

AtomSymbol(s) == [at |-> "Symbol", s |-> s]

AtomNumber(n) == [at |-> "Number", n |-> n]

AtomString(s) == [at |-> "String", s |-> s]

SexprAtom(a) == [sx |-> "Atom", atom |-> a]

SexprList(l) == [sx |-> "List", list |-> l]

SexprDottedList(l, t) == [sx |-> "DottedList", list |-> l, tail |-> t]

(***************************************************************************)
(* nom results: Ok((rest, out)) or Err(Error)                              *)
(***************************************************************************)
POk(rest, out) == [ok |-> TRUE, rest |-> rest, out |-> out]

PErr == [ok |-> FALSE]

(***************************************************************************)
(* whitespace.rs                                                           *)
(***************************************************************************)
RECURSIVE ws_rest(_)
\* many0(alt((pair(tag(";"), is_not("\n\r")), multispace1))): is_not and
\* multispace1 both need at least one character.
ws_rest(input) ==
    IF starts_with(input, ";") /\ SpanNotIn(Tail(input), LineEnd) >= 1
    THEN ws_rest(Drop(input, 1 + SpanNotIn(Tail(input), LineEnd)))
    ELSE IF SpanIn(input, Multispace) >= 1
         THEN ws_rest(Drop(input, SpanIn(input, Multispace)))
         ELSE input

ws(input) ==
    LET rest == ws_rest(input)
    IN  POk(rest, Take(input, Len(input) - Len(rest)))

(***************************************************************************)
(* parser.rs                                                               *)
(***************************************************************************)
I64_MAX_DIGITS ==
    <<"9", "2", "2", "3", "3", "7", "2", "0", "3", "6", "8", "5", "4", "7",
      "7", "5", "8", "0", "7">>

\* The numeral without its leading zeros ("0" for an all-zero run).
StripZeros(ds) ==
    LET z == SpanIn(ds, {"0"})
    IN  IF z = Len(ds) THEN <<"0">> ELSE Drop(ds, z)

DigitVal(c) == CHOOSE d \in 0..9 : ToString(d) = c

\* ds > es for two numerals of the same length.
NumeralGreater(ds, es) ==
    \E k \in 1..Len(ds) :
        /\ \A j \in 1..(k - 1) : ds[j] = es[j]
        /\ DigitVal(ds[k]) > DigitVal(es[k])

\* str::parse::<i64> replaced by a saturating conversion.
\* C25_NumberTokens fails for it.
parse_i64_saturating(ds) ==
    LET n == StripZeros(ds)
    IN  IF \/ Len(n) > Len(I64_MAX_DIGITS)
           \/ Len(n) = Len(I64_MAX_DIGITS) /\ NumeralGreater(n, I64_MAX_DIGITS)
        THEN <<I64_MAX_DIGITS>>
        ELSE <<n>>

\* str::parse::<i64> on a run of digits: Err on overflow.
parse_i64(ds) ==
    LET n == StripZeros(ds)
    IN  IF \/ Len(n) > Len(I64_MAX_DIGITS)
           \/ Len(n) = Len(I64_MAX_DIGITS) /\ NumeralGreater(n, I64_MAX_DIGITS)
        THEN <<>>
        ELSE <<n>>

parse_string(input) ==
    IF ~starts_with(input, "\"") THEN PErr
    ELSE LET body == Tail(input)
             n == SpanNotIn(body, {"\""})
         IN  IF n < Len(body)
             THEN POk(Drop(body, n + 1), AtomString(Take(body, n)))
             ELSE PErr

parse_number(input) ==
    LET n == SpanIn(input, Digit)
    IN  IF n = 0 THEN PErr
        ELSE LET v == parse_i64(Take(input, n))
             IN  IF v = <<>> THEN PErr
                 ELSE POk(Drop(input, n), AtomNumber(v[1]))

parse_symbol(input) ==
    IF Len(input) > 0 /\ input[1] \in SymbolFirst
    THEN LET n == 1 + SpanIn(Tail(input), SymbolRest)
         IN  POk(Drop(input, n), AtomSymbol(Take(input, n)))
    ELSE PErr

parse_atom(input) ==
    LET num == parse_number(input)
    IN  IF num.ok THEN num
        ELSE LET str == parse_string(input)
             IN  IF str.ok THEN str ELSE parse_symbol(input)

RECURSIVE parse_sexpr(_), parse_list(_), parse_list_loop(_, _), parse_quoted(_)

parse_quoted(input) ==
    IF ~starts_with(input, "'") THEN PErr
    ELSE LET r == parse_sexpr(Tail(input))
         IN  IF r.ok
             THEN POk(r.rest,
                      SexprList(<<SexprAtom(AtomSymbol(QUOTE_SYMBOL)), r.out>>))
             ELSE PErr

\* The loop of parse_list: elements are read until the next significant
\* character is ')' or '.'.
parse_list_loop(current_input, elements) ==
    LET peek_input == ws(current_input).rest
    IN  IF starts_with(peek_input, ")") \/ starts_with(peek_input, ".")
        THEN POk(peek_input, elements)
        ELSE LET r == parse_sexpr(current_input)
             IN  IF r.ok
                 THEN parse_list_loop(r.rest, Append(elements, r.out))
                 ELSE PErr

parse_list(input0) ==
    LET open == ws(input0).rest
    IN  IF ~starts_with(open, "(") THEN PErr
        ELSE
        LET input == Tail(open)
            close == ws(input).rest
        IN  IF starts_with(close, ")") THEN POk(Tail(close), SexprAtom(AtomNil))
            ELSE
            LET lp == parse_list_loop(input, <<>>)
            IN  IF ~lp.ok THEN PErr
                ELSE
                LET at == ws(lp.rest).rest
                IN  IF starts_with(at, ".")
                    THEN LET fe == parse_sexpr(ws(Tail(at)).rest)
                         IN  IF ~fe.ok THEN PErr
                             ELSE LET fin == ws(fe.rest).rest
                                  IN  IF starts_with(fin, ")")
                                      THEN POk(Tail(fin),
                                               SexprDottedList(lp.out, fe.out))
                                      ELSE PErr
                    ELSE IF starts_with(at, ")")
                         THEN POk(Tail(at), SexprList(lp.out))
                         ELSE PErr

parse_sexpr(input0) ==
    LET input == ws(input0).rest
        q == parse_quoted(input)
    IN  IF q.ok THEN q
        ELSE LET l == parse_list(input)
             IN  IF l.ok THEN l
                 ELSE LET a == parse_atom(input)
                      IN  IF a.ok THEN POk(a.rest, SexprAtom(a.out)) ELSE PErr

RECURSIVE many0_skip_ws(_, _)
\* many0 handing back the input as the failed attempt left it, leading
\* whitespace skipped.  C9_ParseNeverFails fails for it.
many0_skip_ws(input, acc) ==
    LET r == parse_sexpr(input)
    IN  IF ~r.ok THEN POk(ws(input).rest, acc)
        ELSE IF Len(r.rest) = Len(input) THEN PErr
             ELSE many0_skip_ws(r.rest, Append(acc, r.out))

RECURSIVE many0_parse_sexpr(_, _)
\* many0: stops at the first Err(Error) and returns what it has; a success
\* that consumed nothing would be an error.
many0_parse_sexpr(input, acc) ==
    LET r == parse_sexpr(input)
    IN  IF ~r.ok THEN POk(input, acc)
        ELSE IF Len(r.rest) = Len(input) THEN PErr
             ELSE many0_parse_sexpr(r.rest, Append(acc, r.out))

parse(input) == many0_parse_sexpr(input, <<>>)

(***************************************************************************)
(* evaluator/value.rs: values, errors, environments                        *)
(***************************************************************************)
ValueNil == [v |-> "Nil"]

ValueBool(b) == [v |-> "Bool", b |-> b]

ValueNumber(n) == [v |-> "Number", n |-> n]

ValueString(s) == [v |-> "String", s |-> s]

ValueSymbol(s) == [v |-> "Symbol", s |-> s]

ValueCons(car, cdr) == [v |-> "Cons", car |-> car, cdr |-> cdr]

\* A function pointer, named by the function it points to.
ValuePrimitive(f) == [v |-> "Primitive", f |-> f]

ValueLambda(params, body, closure) ==
    [v |-> "Lambda", params |-> params, body |-> body, closure |-> closure]

Ok(val) == [ok |-> TRUE, val |-> val]

Err(err) == [ok |-> FALSE, err |-> err]

UndefinedVariable(name) == [e |-> "UndefinedVariable", name |-> name]

\* msg is the message's pieces in order: literal text and formatted values.
TypeError(msg) == [e |-> "TypeError", msg |-> msg]

ArityError(expected, got) ==
    [e |-> "ArityError", expected |-> expected, got |-> got]

D_primitive == <<"#", "<", "p", "r", "i", "m", "i", "t", "i", "v", "e", ">">>

D_lambda == <<"#", "<", "l", "a", "m", "b", "d", "a", ">">>

RECURSIVE Display(_), DisplayRest(_)
\* A loop that writes the last cdr like one more element, without the
\* dot.  C20_RoundTrip fails for it.
DisplayRest_no_dot(current) ==
    CASE current.v = "Nil" -> <<>>
      [] current.v = "Cons" ->
            <<" ">> \o Display(current.car) \o DisplayRest(current.cdr)
      [] OTHER -> <<" ">> \o Display(current)

\* The loop over the cdr chain in Display for a Cons.
DisplayRest(current) ==
    CASE current.v = "Nil" -> <<>>
      [] current.v = "Cons" ->
            <<" ">> \o Display(current.car) \o DisplayRest(current.cdr)
      [] OTHER -> <<" ", ".", " ">> \o Display(current)

Display(value) ==
    CASE value.v = "Nil" -> <<"(", ")">>
      [] value.v = "Bool" -> IF value.b THEN <<"#", "t">> ELSE <<"#", "f">>
      [] value.v = "Number" -> value.n
      [] value.v = "String" -> <<"\"">> \o value.s \o <<"\"">>
      [] value.v = "Symbol" -> value.s
      [] value.v = "Cons" ->
            <<"(">> \o Display(value.car) \o DisplayRest(value.cdr) \o <<")">>
      [] value.v = "Primitive" -> D_primitive
      [] value.v = "Lambda" -> D_lambda

\* bindings is a function from the bound names; parent is <<>> (None) or
\* <<p>> (Some(p)).
Environment_new == [bindings |-> <<>>, parent |-> <<>>]

Environment_with_parent(parent) == [bindings |-> <<>>, parent |-> <<parent>>]

\* define as entry(name).or_insert(value) would make it: a bound name keeps
\* its value.  C4_DefineCurrentFrame fails for it.
Environment_define_or_insert(e, name, value) ==
    IF name \in DOMAIN e.bindings THEN e
    ELSE [e EXCEPT !.bindings = (name :> value) @@ @]

Environment_define(e, name, value) ==
    [e EXCEPT !.bindings = (name :> value) @@ @]

RECURSIVE Environment_get(_, _)
Environment_get(e, name) ==
    IF name \in DOMAIN e.bindings THEN <<e.bindings[name]>>
    ELSE IF e.parent # <<>> THEN Environment_get(e.parent[1], name)
         ELSE <<>>

(***************************************************************************)
(* The evaluator's state: the environment behind the &mut reference, and a *)
(* history of what was done (one entry per call of eval, one per frame     *)
(* created by a lambda call), which the program itself never reads.        *)
(***************************************************************************)
EvEval(expr) == [ev |-> "eval", x |-> expr]

EvFrame(params) == [ev |-> "frame", params |-> params]

Note(st, event) == [st EXCEPT !.log = Append(@, event)]

Ret(res, st) == [res |-> res, st |-> st]

(***************************************************************************)
(* evaluator/builtins.rs                                                   *)
(***************************************************************************)
N_cons == <<"c", "o", "n", "s">>

N_car == <<"c", "a", "r">>

N_cdr == <<"c", "d", "r">>

N_null == <<"n", "u", "l", "l", "?">>

N_equal == <<"e", "q", "u", "a", "l", "?">>

N_assoc == <<"a", "s", "s", "o", "c">>

N_group_by == <<"g", "r", "o", "u", "p", "-", "b", "y">>

N_table == <<"t", "a", "b", "l", "e">>

create_global_env ==
    LET e0 == Environment_new
        e1 == Environment_define(e0, N_cons, ValuePrimitive("builtin_cons"))
        e2 == Environment_define(e1, N_car, ValuePrimitive("builtin_car"))
        e3 == Environment_define(e2, N_cdr, ValuePrimitive("builtin_cdr"))
        e4 == Environment_define(e3, N_null, ValuePrimitive("builtin_null"))
        e5 == Environment_define(e4, N_equal, ValuePrimitive("builtin_equal"))
        e6 == Environment_define(e5, N_assoc, ValuePrimitive("builtin_assoc"))
    IN  Environment_define(e6, N_group_by, ValuePrimitive("builtin_group_by"))

builtin_cons(args) ==
    IF Len(args) # 2 THEN Err(ArityError("2", Len(args)))
    ELSE Ok(ValueCons(args[1], args[2]))

builtin_car(args) ==
    IF Len(args) # 1 THEN Err(ArityError("1", Len(args)))
    ELSE IF args[1].v = "Cons" THEN Ok(args[1].car)
         ELSE Err(TypeError(<<"car requires a cons cell">>))

builtin_cdr(args) ==
    IF Len(args) # 1 THEN Err(ArityError("1", Len(args)))
    ELSE IF args[1].v = "Cons" THEN Ok(args[1].cdr)
         ELSE Err(TypeError(<<"cdr requires a cons cell">>))

builtin_null(args) ==
    IF Len(args) # 1 THEN Err(ArityError("1", Len(args)))
    ELSE Ok(ValueBool(args[1].v = "Nil"))

\* Equality that also holds between a function and itself.
\* C17_EqualStructural fails for it.
values_equal_same(a, b) == a = b

RECURSIVE values_equal(_, _)
values_equal(a, b) ==
    CASE a.v = "Nil" /\ b.v = "Nil" -> TRUE
      [] a.v = "Bool" /\ b.v = "Bool" -> a.b = b.b
      [] a.v = "Number" /\ b.v = "Number" -> a.n = b.n
      [] a.v = "String" /\ b.v = "String" -> a.s = b.s
      [] a.v = "Symbol" /\ b.v = "Symbol" -> a.s = b.s
      [] a.v = "Cons" /\ b.v = "Cons" ->
            values_equal(a.car, b.car) /\ values_equal(a.cdr, b.cdr)
      [] OTHER -> FALSE

builtin_equal(args) ==
    IF Len(args) # 2 THEN Err(ArityError("2", Len(args)))
    ELSE Ok(ValueBool(values_equal(args[1], args[2])))

RECURSIVE assoc_loop_last(_, _)
\* A scan that goes on to the end of the alist and returns the last pair
\* with the key.  C15_AssocFirstMatch fails for it.
assoc_loop_last(key, current) ==
    CASE current.v = "Nil" -> Ok(ValueNil)
      [] current.v = "Cons" ->
            IF ~assoc_loop_last(key, current.cdr).ok
                 \/ assoc_loop_last(key, current.cdr).val # ValueNil
            THEN assoc_loop_last(key, current.cdr)
            ELSE IF current.car.v = "Cons"
                      /\ values_equal(key, current.car.car)
                 THEN Ok(current.car)
                 ELSE Ok(ValueNil)
      [] OTHER -> Err(TypeError(<<"assoc requires a proper list">>))

RECURSIVE assoc_loop(_, _)
\* The loop of builtin_assoc over the alist.
assoc_loop(key, current) ==
    CASE current.v = "Nil" -> Ok(ValueNil)
      [] current.v = "Cons" ->
            IF current.car.v = "Cons" /\ values_equal(key, current.car.car)
            THEN Ok(current.car)
            ELSE assoc_loop(key, current.cdr)
      [] OTHER -> Err(TypeError(<<"assoc requires a proper list">>))

builtin_assoc(args) ==
    IF Len(args) # 2 THEN Err(ArityError("2", Len(args)))
    ELSE assoc_loop(args[1], args[2])

(***************************************************************************)
(* evaluator.rs                                                            *)
(***************************************************************************)
S_define == <<"d", "e", "f", "i", "n", "e">>

S_lambda == <<"l", "a", "m", "b", "d", "a">>

S_if == <<"i", "f">>

\* if let Sexpr::Atom(Atom::Symbol(name)) = expr, with name == s
IsSymbol(expr, s) ==
    expr.sx = "Atom" /\ expr.atom.at = "Symbol" /\ expr.atom.s = s

RECURSIVE list_to_cons(_)
list_to_cons(values) ==
    IF values = <<>> THEN ValueNil
    ELSE ValueCons(values[1], list_to_cons(Tail(values)))

RECURSIVE sexpr_to_value(_), sexprs_to_values(_), fold_cons(_, _)
\* list.iter().map(sexpr_to_value).collect()
sexprs_to_values(list) ==
    IF list = <<>> THEN <<>>
    ELSE <<sexpr_to_value(list[1])>> \o sexprs_to_values(Tail(list))

\* iter().rev().fold(acc, |acc, val| Cons(val, acc))
fold_cons(values, acc) ==
    IF values = <<>> THEN acc
    ELSE ValueCons(values[1], fold_cons(Tail(values), acc))

\* A conversion that ends every chain in Nil: the tail of a dotted list is
\* lost.  C19_QuoteConverts fails for it.
sexpr_to_value_proper(expr) ==
    CASE expr.sx = "Atom" ->
            (CASE expr.atom.at = "Nil" -> ValueNil
               [] expr.atom.at = "Number" -> ValueNumber(expr.atom.n)
               [] expr.atom.at = "String" -> ValueString(expr.atom.s)
               [] expr.atom.at = "Symbol" -> ValueSymbol(expr.atom.s))
      [] OTHER -> list_to_cons(sexprs_to_values(expr.list))

\* Never fails: the Result it returns is always Ok.
sexpr_to_value(expr) ==
    CASE expr.sx = "Atom" ->
            (CASE expr.atom.at = "Nil" -> ValueNil
               [] expr.atom.at = "Number" -> ValueNumber(expr.atom.n)
               [] expr.atom.at = "String" -> ValueString(expr.atom.s)
               [] expr.atom.at = "Symbol" -> ValueSymbol(expr.atom.s))
      [] expr.sx = "List" -> list_to_cons(sexprs_to_values(expr.list))
      [] expr.sx = "DottedList" ->
            fold_cons(sexprs_to_values(expr.list), sexpr_to_value(expr.tail))

eval_quote(args) ==
    IF Len(args) # 1 THEN Err(ArityError("1", Len(args)))
    ELSE Ok(sexpr_to_value(args[1]))

\* Truthiness with 0 counted as false.  C6_IfOneBranch fails for it.
is_truthy_nonzero(value) ==
    ~(\/ value.v = "Nil"
      \/ (value.v = "Bool" /\ value.b = FALSE)
      \/ (value.v = "Number" /\ value.n = <<"0">>))

is_truthy(value) ==
    ~(value.v = "Nil" \/ (value.v = "Bool" /\ value.b = FALSE))

\* The parameter names of a lambda's parameter list, or the first error.
RECURSIVE lambda_params(_)
lambda_params(list) ==
    IF list = <<>> THEN Ok(<<>>)
    ELSE IF list[1].sx = "Atom" /\ list[1].atom.at = "Symbol"
         THEN LET rest == lambda_params(Tail(list))
              IN  IF rest.ok THEN Ok(<<list[1].atom.s>> \o rest.val) ELSE rest
         ELSE Err(TypeError(<<"lambda parameters must be symbols">>))

\* for (param, arg) in params.iter().zip(args.iter()) { new_env.define(..) }
RECURSIVE bind_params(_, _, _)
bind_params(new_env, params, args) ==
    IF params = <<>> \/ args = <<>> THEN new_env
    ELSE bind_params(Environment_define(new_env, params[1], args[1]),
                     Tail(params), Tail(args))

\* The rows of a proper list, or the type error of a list that is not one.
RECURSIVE table_rows(_, _)
table_rows(current, rows) ==
    CASE current.v = "Nil" -> Ok(rows)
      [] current.v = "Cons" -> table_rows(current.cdr, Append(rows, current.car))
      [] OTHER -> Err(TypeError(<<"group-by requires a proper list as table">>))

\* A key text that tells a Symbol from a String and a Number.
\* C30_GroupByKeys fails for it.
value_to_string_kinded(value) ==
    CASE value.v = "String" -> Ok(value.s)
      [] value.v = "Symbol" -> Ok(<<"'">> \o value.s)
      [] value.v = "Number" -> Ok(value.n)
      [] OTHER -> Err(TypeError(<<"group-by key must be string, symbol, or number">>))

value_to_string(value) ==
    CASE value.v = "String" -> Ok(value.s)
      [] value.v = "Symbol" -> Ok(value.s)
      [] value.v = "Number" -> Ok(value.n)
      [] OTHER -> Err(TypeError(<<"group-by key must be string, symbol, or number">>))

\* A map that takes every push for a new key: a key can then have two
\* entries.  C14_GroupByPartition fails for it.
groups_push_always(groups, key_str, row) ==
    Append(groups, [key |-> key_str, rows |-> <<row>>])

\* groups.entry(key_str).or_default().push(row), the map held as its
\* entries in the order the keys were first inserted.
groups_push(groups, key_str, row) ==
    IF \E g \in 1..Len(groups) : groups[g].key = key_str
    THEN [g \in 1..Len(groups) |->
            IF groups[g].key = key_str
            THEN [groups[g] EXCEPT !.rows = Append(@, row)]
            ELSE groups[g]]
    ELSE Append(groups, [key |-> key_str, rows |-> <<row>>])

\* One order in which groups.into_iter() can yield the entries: the hasher
\* is seeded at random, so any order is possible.  hash is a permutation of
\* 1..K; entries beyond K come last.
RECURSIVE SelectIn(_, _)
SelectIn(seq, S) ==
    IF seq = <<>> THEN <<>>
    ELSE IF seq[1] \in S THEN <<seq[1]>> \o SelectIn(Tail(seq), S)
         ELSE SelectIn(Tail(seq), S)

into_iter(groups, hash) ==
    LET order == SelectIn(hash, 1..Len(groups))
        late == [j \in 1..(Len(groups) - Len(order)) |-> Len(order) + j]
        all == order \o late
    IN  [j \in 1..Len(groups) |-> groups[all[j]]]

\* for (key, group_rows) in groups.into_iter() { result = Cons(pair, result) }
RECURSIVE groups_to_alist(_, _)
groups_to_alist(entries, alist) ==
    IF entries = <<>> THEN alist
    ELSE groups_to_alist(
            Tail(entries),
            ValueCons(ValueCons(ValueString(entries[1].key),
                                list_to_cons(entries[1].rows)),
                      alist))

RECURSIVE eval(_, _), eval_list(_, _), eval_args(_, _, _),
          eval_dotted_list(_, _, _), eval_dotted_fold(_, _, _),
          eval_define(_, _), eval_lambda(_, _), eval_if(_, _),
          eval_body(_, _, _), apply(_, _, _), apply_function(_, _, _),
          call_primitive(_, _, _), builtin_group_by(_, _),
          group_rows(_, _, _, _)

eval_atom(atom, st) ==
    CASE atom.at = "Nil" -> Ret(Ok(ValueNil), st)
      [] atom.at = "Number" -> Ret(Ok(ValueNumber(atom.n)), st)
      [] atom.at = "String" -> Ret(Ok(ValueString(atom.s)), st)
      [] atom.at = "Symbol" ->
            LET found == Environment_get(st.env, atom.s)
            IN  IF found # <<>> THEN Ret(Ok(found[1]), st)
                ELSE Ret(Err(UndefinedVariable(atom.s)), st)

eval(expr, st0) ==
    LET st == Note(st0, EvEval(expr))
    IN  CASE expr.sx = "Atom" -> eval_atom(expr.atom, st)
          [] expr.sx = "List" ->
                IF expr.list = <<>> THEN Ret(Ok(ValueNil), st)
                ELSE eval_list(expr.list, st)
          [] expr.sx = "DottedList" ->
                eval_dotted_list(expr.list, expr.tail, st)

\* list[1..].iter().map(|arg| eval(arg, env)).collect::<Result<Vec<_>, _>>()
eval_args(list, st, acc) ==
    IF list = <<>> THEN Ret(Ok(acc), st)
    ELSE LET r == eval(list[1], st)
         IN  IF r.res.ok
             THEN eval_args(Tail(list), r.st, Append(acc, r.res.val))
             ELSE r

\* A call that rejects a head that is no function before it evaluates the
\* arguments.  C21_CallOrder fails for it.
eval_list_head_checked(list, st) ==
    IF list = <<>> THEN Ret(Ok(ValueNil), st)
    ELSE IF IsSymbol(list[1], QUOTE_SYMBOL) THEN Ret(eval_quote(Tail(list)), st)
    ELSE IF IsSymbol(list[1], S_define) THEN eval_define(Tail(list), st)
    ELSE IF IsSymbol(list[1], S_lambda) THEN eval_lambda(Tail(list), st)
    ELSE IF IsSymbol(list[1], S_if) THEN eval_if(Tail(list), st)
    ELSE LET func == eval(list[1], st)
         IN  IF ~func.res.ok THEN func
             ELSE IF func.res.val.v \notin {"Primitive", "Lambda"}
             THEN apply(func.res.val, <<>>, func.st)
             ELSE LET args == eval_args(Tail(list), func.st, <<>>)
                  IN  IF ~args.res.ok THEN args
                      ELSE apply(func.res.val, args.res.val, args.st)

\* A dispatch that looks the head symbol up first and applies what the
\* user bound to it.  C28_SpecialFormsBySpelling fails for it.
eval_list_lookup_first(list, st) ==
    IF list = <<>> THEN Ret(Ok(ValueNil), st)
    ELSE IF /\ list[1].sx = "Atom"
            /\ list[1].atom.at = "Symbol"
            /\ Environment_get(st.env, list[1].atom.s) = <<>>
            /\ list[1].atom.s \in {QUOTE_SYMBOL, S_define, S_lambda, S_if}
    THEN (IF IsSymbol(list[1], QUOTE_SYMBOL)
          THEN Ret(eval_quote(Tail(list)), st)
          ELSE IF IsSymbol(list[1], S_define) THEN eval_define(Tail(list), st)
          ELSE IF IsSymbol(list[1], S_lambda) THEN eval_lambda(Tail(list), st)
          ELSE eval_if(Tail(list), st))
    ELSE LET func == eval(list[1], st)
         IN  IF ~func.res.ok THEN func
             ELSE LET args == eval_args(Tail(list), func.st, <<>>)
                  IN  IF ~args.res.ok THEN args
                      ELSE apply(func.res.val, args.res.val, args.st)

eval_list(list, st) ==
    IF list = <<>> THEN Ret(Ok(ValueNil), st)
    ELSE IF IsSymbol(list[1], QUOTE_SYMBOL) THEN Ret(eval_quote(Tail(list)), st)
    ELSE IF IsSymbol(list[1], S_define) THEN eval_define(Tail(list), st)
    ELSE IF IsSymbol(list[1], S_lambda) THEN eval_lambda(Tail(list), st)
    ELSE IF IsSymbol(list[1], S_if) THEN eval_if(Tail(list), st)
    ELSE LET func == eval(list[1], st)
         IN  IF ~func.res.ok THEN func
             ELSE LET args == eval_args(Tail(list), func.st, <<>>)
                  IN  IF ~args.res.ok THEN args
                      ELSE apply(func.res.val, args.res.val, args.st)

\* list.iter().rev().try_fold(acc, ..): the last element first.
eval_dotted_fold(list, acc, st) ==
    IF list = <<>> THEN Ret(Ok(acc), st)
    ELSE LET r == eval(list[Len(list)], st)
         IN  IF r.res.ok
             THEN eval_dotted_fold(Take(list, Len(list) - 1),
                                   ValueCons(r.res.val, acc), r.st)
             ELSE r

\* A dotted list evaluated from the left, the tail last.
\* C24_DottedOrder fails for it.
eval_dotted_list_left_first(list, tail, st) ==
    LET heads == eval_args(list, st, <<>>)
    IN  IF ~heads.res.ok THEN heads
        ELSE LET tail_val == eval(tail, heads.st)
             IN  IF ~tail_val.res.ok THEN tail_val
                 ELSE Ret(Ok(fold_cons(heads.res.val, tail_val.res.val)),
                          tail_val.st)

eval_dotted_list(list, tail, st) ==
    LET tail_val == eval(tail, st)
    IN  IF ~tail_val.res.ok THEN tail_val
        ELSE eval_dotted_fold(list, tail_val.res.val, tail_val.st)

eval_define(args, st) ==
    IF Len(args) # 2 THEN Ret(Err(ArityError("2", Len(args))), st)
    ELSE IF ~(args[1].sx = "Atom" /\ args[1].atom.at = "Symbol")
    THEN Ret(Err(TypeError(<<"define requires a symbol as first argument">>)), st)
    ELSE LET name == args[1].atom.s
             value == eval(args[2], st)
         IN  IF ~value.res.ok THEN value
             ELSE Ret(Ok(value.res.val),
                      [value.st EXCEPT
                         !.env = Environment_define(@, name, value.res.val)])

RECURSIVE Environment_root(_)
\* The last ancestor of a frame.
Environment_root(e) ==
    IF e.parent = <<>> THEN e ELSE Environment_root(e.parent[1])

\* eval_lambda capturing the root frame in place of the current one.
\* C2_MakeAdder fails for it.
eval_lambda_root(args, st) ==
    IF Len(args) < 2 THEN Ret(Err(ArityError("at least 2", Len(args))), st)
    ELSE IF args[1].sx # "List"
    THEN Ret(Err(TypeError(<<"lambda requires a parameter list">>)), st)
    ELSE LET params == lambda_params(args[1].list)
         IN  IF ~params.ok THEN Ret(params, st)
             ELSE Ret(Ok(ValueLambda(params.val, Tail(args),
                                     Environment_root(st.env))), st)

\* closure = Rc::new(env.clone()): the lambda holds a copy of the
\* environment as it is now.
eval_lambda(args, st) ==
    IF Len(args) < 2 THEN Ret(Err(ArityError("at least 2", Len(args))), st)
    ELSE IF args[1].sx # "List"
    THEN Ret(Err(TypeError(<<"lambda requires a parameter list">>)), st)
    ELSE LET params == lambda_params(args[1].list)
         IN  IF ~params.ok THEN Ret(params, st)
             ELSE Ret(Ok(ValueLambda(params.val, Tail(args), st.env)), st)

\* An if that evaluates its first operand before it counts them.
\* C22_ArityErrors fails for it.
eval_if_counted_late(args, st) ==
    IF args = <<>> THEN Ret(Err(ArityError("3", 0)), st)
    ELSE LET test == eval(args[1], st)
         IN  IF ~test.res.ok THEN test
             ELSE IF Len(args) # 3
                  THEN Ret(Err(ArityError("3", Len(args))), test.st)
                  ELSE IF is_truthy(test.res.val) THEN eval(args[2], test.st)
                       ELSE eval(args[3], test.st)

eval_if(args, st) ==
    IF Len(args) # 3 THEN Ret(Err(ArityError("3", Len(args))), st)
    ELSE LET test == eval(args[1], st)
         IN  IF ~test.res.ok THEN test
             ELSE IF is_truthy(test.res.val) THEN eval(args[2], test.st)
                  ELSE eval(args[3], test.st)

\* for expr in &body { result = eval(expr, &mut new_env)?; }
eval_body(body, st, last) ==
    IF body = <<>> THEN Ret(Ok(last), st)
    ELSE LET r == eval(body[1], st)
         IN  IF r.res.ok THEN eval_body(Tail(body), r.st, r.res.val) ELSE r

call_primitive(f, args, st) ==
    CASE f = "builtin_cons" -> Ret(builtin_cons(args), st)
      [] f = "builtin_car" -> Ret(builtin_car(args), st)
      [] f = "builtin_cdr" -> Ret(builtin_cdr(args), st)
      [] f = "builtin_null" -> Ret(builtin_null(args), st)
      [] f = "builtin_equal" -> Ret(builtin_equal(args), st)
      [] f = "builtin_assoc" -> Ret(builtin_assoc(args), st)
      [] f = "builtin_group_by" -> builtin_group_by(args, st)

\* apply with the caller's environment as the parent of the new frame
\* (dynamic scoping).  C3_LexicalScoping fails for it.
apply_dynamic(func, args, st) ==
    CASE func.v = "Primitive" -> call_primitive(func.f, args, st)
      [] func.v = "Lambda" ->
            IF Len(func.params) # Len(args)
            THEN Ret(Err(ArityError(ToString(Len(func.params)), Len(args))), st)
            ELSE LET new_env == bind_params(Environment_with_parent(st.env),
                                            func.params, args)
                     r == eval_body(func.body,
                                    [Note(st, EvFrame(func.params))
                                       EXCEPT !.env = new_env],
                                    ValueNil)
                 IN  Ret(r.res, [r.st EXCEPT !.env = st.env])
      [] OTHER ->
            Ret(Err(TypeError(<<"Cannot apply non-function: ", Display(func)>>)),
                st)

\* apply without the comparison of the two lengths: zip binds as many
\* parameters as there are arguments.  C5_LambdaArity fails for it.
apply_zip(func, args, st) ==
    CASE func.v = "Primitive" -> call_primitive(func.f, args, st)
      [] func.v = "Lambda" ->
            LET new_env == bind_params(Environment_with_parent(func.closure),
                                       func.params, args)
                r == eval_body(func.body,
                               [Note(st, EvFrame(func.params))
                                  EXCEPT !.env = new_env],
                               ValueNil)
            IN  Ret(r.res, [r.st EXCEPT !.env = st.env])
      [] OTHER ->
            Ret(Err(TypeError(<<"Cannot apply non-function: ", Display(func)>>)),
                st)

\* The body runs in new_env, a local of this call: the caller's environment
\* is the one it had.
apply(func, args, st) ==
    CASE func.v = "Primitive" -> call_primitive(func.f, args, st)
      [] func.v = "Lambda" ->
            IF Len(func.params) # Len(args)
            THEN Ret(Err(ArityError(ToString(Len(func.params)), Len(args))), st)
            ELSE LET new_env == bind_params(
                                  Environment_with_parent(func.closure),
                                  func.params, args)
                     r == eval_body(func.body,
                                    [Note(st, EvFrame(func.params))
                                       EXCEPT !.env = new_env],
                                    ValueNil)
                 IN  Ret(r.res, [r.st EXCEPT !.env = st.env])
      [] OTHER ->
            Ret(Err(TypeError(<<"Cannot apply non-function: ", Display(func)>>)),
                st)

\* builtins.rs has its own copy of apply.
apply_function(func, args, st) ==
    CASE func.v = "Primitive" -> call_primitive(func.f, args, st)
      [] func.v = "Lambda" ->
            IF Len(func.params) # Len(args)
            THEN Ret(Err(ArityError(ToString(Len(func.params)), Len(args))), st)
            ELSE LET new_env == bind_params(
                                  Environment_with_parent(func.closure),
                                  func.params, args)
                     r == eval_body(func.body,
                                    [Note(st, EvFrame(func.params))
                                       EXCEPT !.env = new_env],
                                    ValueNil)
                 IN  Ret(r.res, [r.st EXCEPT !.env = st.env])
      [] OTHER ->
            Ret(Err(TypeError(<<"Cannot apply non-function: ", Display(func)>>)),
                st)

\* for row in rows { key = apply_function(key_fn, [row])?; ... push(row) }
group_rows(rows, key_fn, groups, st) ==
    IF rows = <<>> THEN Ret(Ok(groups), st)
    ELSE LET key_value == apply_function(key_fn, <<rows[1]>>, st)
         IN  IF ~key_value.res.ok THEN key_value
             ELSE LET key_str == value_to_string(key_value.res.val)
                  IN  IF ~key_str.ok THEN Ret(key_str, key_value.st)
                      ELSE group_rows(Tail(rows), key_fn,
                                      groups_push(groups, key_str.val, rows[1]),
                                      key_value.st)

builtin_group_by(args, st) ==
    IF Len(args) # 2 THEN Ret(Err(ArityError("2", Len(args))), st)
    ELSE LET rows == table_rows(args[1], <<>>)
         IN  IF ~rows.ok THEN Ret(rows, st)
             ELSE LET groups == group_rows(rows.val, args[2], <<>>, st)
                  IN  IF ~groups.res.ok THEN groups
                      ELSE Ret(Ok(groups_to_alist(
                                    into_iter(groups.res.val, st.hash),
                                    ValueNil)),
                               [groups.st EXCEPT
                                  !.log = Append(@, [ev |-> "iter",
                                                     n |-> Len(groups.res.val)])])

(***************************************************************************)
(* Bounds and inputs                                                       *)
(***************************************************************************)
\* Expressions in an assembled program.
MaxProg == 3

\* Characters in a typed program.
MaxText == 4

\* Entries of group-by's map whose iteration order is drawn.
MaxGroups == 2

\* (define x 1)
T_define_x_1 ==
    <<"(", "d", "e", "f", "i", "n", "e", " ", "x", " ", "1", ")">>

\* (define x 2)
T_define_x_2 ==
    <<"(", "d", "e", "f", "i", "n", "e", " ", "x", " ", "2", ")">>

\* (define f (lambda (y) x))
T_define_f ==
    <<"(", "d", "e", "f", "i", "n", "e", " ", "f", " ", "(", "l", "a", "m",
    "b", "d", "a", " ", "(", "y", ")", " ", "x", ")", ")">>

\* (define make-adder (lambda (n) (lambda (x) (cons n x))))
T_define_make_adder ==
    <<"(", "d", "e", "f", "i", "n", "e", " ", "m", "a", "k", "e", "-", "a",
    "d", "d", "e", "r", " ", "(", "l", "a", "m", "b", "d", "a", " ", "(",
    "n", ")", " ", "(", "l", "a", "m", "b", "d", "a", " ", "(", "x", ")",
    " ", "(", "c", "o", "n", "s", " ", "n", " ", "x", ")", ")", ")", ")">>

\* (define add5 (make-adder 5))
T_define_add5 ==
    <<"(", "d", "e", "f", "i", "n", "e", " ", "a", "d", "d", "5", " ", "(",
    "m", "a", "k", "e", "-", "a", "d", "d", "e", "r", " ", "5", ")", ")">>

\* (define g (lambda (x) (define y (cons x 1)) y))
T_define_g ==
    <<"(", "d", "e", "f", "i", "n", "e", " ", "g", " ", "(", "l", "a", "m",
    "b", "d", "a", " ", "(", "x", ")", " ", "(", "d", "e", "f", "i", "n",
    "e", " ", "y", " ", "(", "c", "o", "n", "s", " ", "x", " ", "1", ")",
    ")", " ", "y", ")", ")">>

\* (if (null? x) zz (define k x))
T_if ==
    <<"(", "i", "f", " ", "(", "n", "u", "l", "l", "?", " ", "x", ")", " ",
    "z", "z", " ", "(", "d", "e", "f", "i", "n", "e", " ", "k", " ", "x",
    ")", ")">>

\* x
T_x ==
    <<"x">>

Snippets ==
    {T_define_x_1, T_define_x_2, T_define_f, T_define_make_adder,
     T_define_add5, T_define_g, T_if, T_x}

TextChars == {"(", ")", ".", "a", "1", " ", "'", ";", "\n"}

\* ((r . ((k . "v")))), a table of one row
Table1 ==
    list_to_cons(<<ValueCons(ValueSymbol(<<"r">>),
                             list_to_cons(<<ValueCons(ValueSymbol(<<"k">>),
                                                      ValueString(<<"v">>))>>))>>)

\* The tables handed to transform_table.
Tables == <<ValueNil, Table1>>

HashOrders ==
    {h \in [1..MaxGroups -> 1..MaxGroups] :
        \A a, b \in 1..MaxGroups : h[a] = h[b] => a = b}

IdentityHash == [j \in 1..MaxGroups |-> j]

St(e, l, h) == [env |-> e, log |-> l, hash |-> h]

\* The iteration orders that can make a difference to evaluating expr: all
\* of them when the evaluation iterates over a map of two or more groups.
HashChoices(expr, e, l) ==
    LET r == eval(expr, St(e, l, IdentityHash))
    IN  IF \E k \in 1..Len(r.st.log) :
              r.st.log[k].ev = "iter" /\ r.st.log[k].n > 1
        THEN HashOrders
        ELSE {IdentityHash}

(***************************************************************************)
(* The program entry points                                                *)
(*   transform_table (processor/src/table_transform.rs)                    *)
(*   eval_program    (klisp/tests/evaluator_tests.rs)                      *)
(***************************************************************************)
ParseError(msg) == [e |-> "ParseError", msg |-> msg]

Init ==
    /\ text = <<>>
    /\ nexpr = 0
    /\ pc = "input"
    /\ entry = "none"
    /\ sexprs = <<>>
    /\ idx = 0
    /\ env = Environment_new
    /\ result = ValueNil
    /\ error = <<>>
    /\ log = <<>>

\* The caller writes one more expression into the program.
Paste(s) ==
    /\ pc = "input"
    /\ nexpr < MaxProg
    /\ text' = IF text = <<>> THEN s ELSE text \o <<"\n">> \o s
    /\ nexpr' = nexpr + 1
    /\ UNCHANGED <<pc, entry, sexprs, idx, env, result, error, log>>

\* The caller types one more character of the program.
TypeChar(c) ==
    /\ pc = "input"
    /\ nexpr = 0
    /\ Len(text) < MaxText
    /\ text' = Append(text, c)
    /\ UNCHANGED <<nexpr, pc, entry, sexprs, idx, env, result, error, log>>

\* The state at the head of the for loop over sexprs.
EnterLoop(xs, e) ==
    /\ sexprs' = xs
    /\ env' = e
    /\ result' = ValueNil
    /\ idx' = 1
    /\ pc' = IF xs = <<>> THEN "ok" ELSE "loop"
    /\ error' = <<>>

Reject(err) ==
    /\ pc' = "err"
    /\ error' = <<err>>
    /\ UNCHANGED <<sexprs, idx, env, result>>

\* The remainder check of transform_table: any unparsed input is an error.
check_remaining(p, table) ==
    IF ~p.ok THEN Reject(ParseError(<<"Many0">>))
    ELSE IF p.rest # <<>>
         THEN Reject(ParseError(<<"Unparsed input: ", p.rest>>))
         ELSE EnterLoop(p.out,
                        Environment_define(create_global_env, N_table, table))

\* transform_table up to its for loop.
transform_table(table) ==
    /\ pc = "input"
    /\ entry' = "transform_table"
    /\ check_remaining(parse(text), table)
    /\ UNCHANGED <<text, nexpr, log>>

\* eval_program keeps the expressions and does not look at the remainder.
keep_sexprs(p) ==
    IF ~p.ok THEN Reject(ParseError(<<"Parse error: ", "Many0">>))
    ELSE EnterLoop(p.out, create_global_env)

\* eval_program up to its for loop.
eval_program ==
    /\ pc = "input"
    /\ entry' = "eval_program"
    /\ keep_sexprs(parse(text))
    /\ UNCHANGED <<text, nexpr, log>>

\* What `?` returns for an evaluation error: transform_table wraps it
\* (#[from]), eval_program formats it.
EvalFailure(err) ==
    IF entry = "transform_table" THEN [e |-> "EvalError", cause |-> err]
    ELSE [e |-> "String", msg |-> <<"Eval error: ", err>>]

\* The loop with the error of an expression dropped in place of returned:
\* it goes on with the next expression.  C7_ProgramEntry fails for it.
Step_keep_going ==
    /\ pc = "loop"
    /\ \E h \in HashChoices(sexprs[idx], env, log) :
         LET r == eval(sexprs[idx], St(env, log, h))
         IN  /\ env' = r.st.env
             /\ log' = r.st.log
             /\ result' = IF r.res.ok THEN r.res.val ELSE result
             /\ idx' = idx + 1
             /\ pc' = IF idx = Len(sexprs) THEN "ok" ELSE "loop"
             /\ error' = error
    /\ UNCHANGED <<text, nexpr, entry, sexprs>>

\* One turn of the loop: result = eval(&sexpr, &mut env)?  After the last
\* expression the function returns Ok(result).
Step ==
    /\ pc = "loop"
    /\ \E h \in HashChoices(sexprs[idx], env, log) :
         LET r == eval(sexprs[idx], St(env, log, h))
         IN  /\ env' = r.st.env
             /\ log' = r.st.log
             /\ IF r.res.ok
                THEN /\ result' = r.res.val
                     /\ idx' = idx + 1
                     /\ pc' = IF idx = Len(sexprs) THEN "ok" ELSE "loop"
                     /\ error' = error
                ELSE /\ pc' = "err"
                     /\ error' = <<EvalFailure(r.res.err)>>
                     /\ UNCHANGED <<result, idx>>
    /\ UNCHANGED <<text, nexpr, entry, sexprs>>

Call ==
    \/ \E t \in DOMAIN Tables : transform_table(Tables[t])
    \/ eval_program

Next ==
    \/ \E s \in Snippets : Paste(s)
    \/ Call
    \/ Step

Spec == Init /\ [][Next]_vars

NextText ==
    \/ \E c \in TextChars : TypeChar(c)
    \/ Call
    \/ Step

SpecText == Init /\ [][NextText]_vars

(***************************************************************************)
(* Expressions evaluated against the environment the program has built     *)
(***************************************************************************)
Sym(s) == SexprAtom(AtomSymbol(s))

Num(n) == SexprAtom(AtomNumber(n))

Form(head, args) == SexprList(<<head>> \o args)

Lambda(params, body) ==
    Form(Sym(S_lambda), <<SexprList([j \in 1..Len(params) |-> Sym(params[j])])>> \o body)

Define(s, expr) == Form(Sym(S_define), <<Sym(s), expr>>)

If(test, then, else) == Form(Sym(S_if), <<test, then, else>>)

Quote(expr) == Form(Sym(QUOTE_SYMBOL), <<expr>>)

\* The environment a program has built when it has run to its end.  The
\* environment between two expressions of a program is the one the program
\* cut off there ends with.
AtHead == pc = "ok"

\* expr evaluated in the program's environment, with a log of its own.
Probe(expr) == eval(expr, St(env, <<>>, IdentityHash))

\* The name is bound in the top-level frame to a lambda.
IsLambda(name) ==
    name \in DOMAIN env.bindings /\ env.bindings[name].v = "Lambda"

\* The builtins the examined expressions use are the ones of
\* create_global_env, in the frame e.
HasBuiltins(e) ==
    /\ Environment_get(e, N_cons) = <<ValuePrimitive("builtin_cons")>>
    /\ Environment_get(e, N_null) = <<ValuePrimitive("builtin_null")>>

\* Argument expressions and the values they denote.
ProbeArgs ==
    { [x |-> Num(<<"5">>), val |-> ValueNumber(<<"5">>)],
      [x |-> SexprAtom(AtomString(<<"s">>)), val |-> ValueString(<<"s">>)],
      [x |-> Quote(SexprList(<<Sym(<<"a">>)>>)),
       val |-> ValueCons(ValueSymbol(<<"a">>), ValueNil)] }

N_x == <<"x">>

N_r == <<"r">>

N_p == <<"p">>

N_q == <<"q">>

N_zz == <<"z", "z">>

N_make_adder == <<"m", "a", "k", "e", "-", "a", "d", "d", "e", "r">>

N_add5 == <<"a", "d", "d", "5">>

N_g == <<"g">>

N_k == <<"k">>

Num0 == Num(<<"0">>)

Num7 == Num(<<"7">>)

Num99 == Num(<<"9", "9">>)

(***************************************************************************)
(* C1                                                                      *)
(***************************************************************************)
\* A lambda made at top level whose body is one free variable.
FreeVarLambda(name) ==
    /\ IsLambda(name)
    /\ LET f == env.bindings[name]
       IN  /\ f.closure.parent = <<>>
           /\ Len(f.params) = 1
           /\ Len(f.body) = 1
           /\ f.body[1].sx = "Atom"
           /\ f.body[1].atom.at = "Symbol"
           /\ f.body[1].atom.s # f.params[1]

\* C1: a lambda made in the top-level frame sees the frame by reference:
\* whenever the top-level frame binds the lambda's free variable, whether
\* the binding was made before or after the lambda, a call of the lambda
\* evaluates to the binding the frame has now.
C1_SharedReference ==
    AtHead =>
        \A name \in DOMAIN env.bindings :
            (/\ FreeVarLambda(name)
             /\ Environment_get(env, env.bindings[name].body[1].atom.s) # <<>>)
            => Probe(Form(Sym(name), <<Num0>>)).res
                 = Ok(Environment_get(env, env.bindings[name].body[1].atom.s)[1])

(***************************************************************************)
(* C2                                                                      *)
(***************************************************************************)
\* The lambda expression of make-adder, as the parser reads it.
MakeAdderLambda == parse(T_define_make_adder).out[1].list[3]

\* make-adder is bound to (lambda (n) (lambda (x) (cons n x))), made where
\* cons is the builtin.
IsMakeAdder ==
    /\ IsLambda(N_make_adder)
    /\ LET m == env.bindings[N_make_adder]
       IN  /\ m.params = <<<<"n">>>>
           /\ m.body = Tail(Tail(MakeAdderLambda.list))
           /\ HasBuiltins(m.closure)

\* (define p (make-adder a)) (define q (make-adder b)), then p and q called
\* with c in the order given: the two results, p's first.
TwoAdders(a, b, c, p_first) ==
    LET dp == eval(Define(N_p, Form(Sym(N_make_adder), <<a>>)),
                   St(env, <<>>, IdentityHash))
        dq == eval(Define(N_q, Form(Sym(N_make_adder), <<b>>)), dp.st)
        call_p == Form(Sym(N_p), <<c>>)
        call_q == Form(Sym(N_q), <<c>>)
        r1 == eval(IF p_first THEN call_p ELSE call_q, dq.st)
        r2 == eval(IF p_first THEN call_q ELSE call_p, r1.st)
    IN  IF p_first THEN <<r1.res, r2.res>> ELSE <<r2.res, r1.res>>

\* C2: wherever make-adder is defined, ((make-adder n) x) is Cons(n, x) for
\* all argument values, two closures made by two calls each keep their own
\* n in either order of calling, and a closure bound by
\* (define add5 (make-adder 5)) still holds n = 5 after that call returned.
C2_MakeAdder ==
    (AtHead /\ IsMakeAdder) =>
        /\ \A a, b \in ProbeArgs :
              /\ Probe(Form(Form(Sym(N_make_adder), <<a.x>>), <<b.x>>)).res
                    = Ok(ValueCons(a.val, b.val))
              /\ \A p_first \in BOOLEAN :
                    TwoAdders(a.x, b.x, Num7, p_first)
                        = <<Ok(ValueCons(a.val, ValueNumber(<<"7">>))),
                            Ok(ValueCons(b.val, ValueNumber(<<"7">>)))>>
        /\ (IsLambda(N_add5) /\ env.bindings[N_add5].params = <<N_x>>) =>
              /\ env.bindings[N_add5].closure.bindings
                    = (<<"n">> :> ValueNumber(<<"5">>))
              /\ Probe(Form(Sym(N_add5), <<Num7>>)).res
                    = Ok(ValueCons(ValueNumber(<<"5">>), ValueNumber(<<"7">>)))

\* make-adder and add5 are defined, and add5 was made by a call that has
\* returned.
C2_Witness ==
    /\ pc = "ok"
    /\ IsMakeAdder
    /\ IsLambda(N_add5)
    /\ Probe(Form(Sym(N_add5), <<Num7>>)).res
          = Ok(ValueCons(ValueNumber(<<"5">>), ValueNumber(<<"7">>)))

(***************************************************************************)
(* C3                                                                      *)
(***************************************************************************)
\* The free variable of a lambda FreeVarLambda accepts.
FreeVar(name) == env.bindings[name].body[1].atom.s

\* The lambda is called from a frame that binds its free variable to 99.
CalledFromFrame(name) ==
    Form(Lambda(<<FreeVar(name)>>, <<Form(Sym(name), <<Num0>>)>>), <<Num99>>)

\* ((lambda (s) ((lambda (s) s) 7)) 99)
ShadowTwice(s) ==
    Form(Lambda(<<s>>, <<Form(Lambda(<<s>>, <<Sym(s)>>), <<Num7>>)>>), <<Num99>>)

\* ((lambda (s) ((lambda (p) s) 7)) 99)
ShadowOnce(s) ==
    Form(Lambda(<<s>>, <<Form(Lambda(<<N_p>>, <<Sym(s)>>), <<Num7>>)>>), <<Num99>>)

\* ((lambda (p) (define q p) q) 7) and then ((lambda (p) q) 7): what the
\* second call returns.
SecondCall ==
    LET first == Probe(Form(Lambda(<<N_p>>, <<Define(N_q, Sym(N_p)), Sym(N_q)>>),
                            <<Num7>>))
    IN  eval(Form(Lambda(<<N_p>>, <<Sym(N_q)>>), <<Num7>>), first.st).res

\* C3: scoping is lexical.  A lambda's free variable is read from the
\* environment the lambda captured, whatever the caller's frame or the
\* top-level frame binds the name to at the time of the call; a parameter
\* hides a captured binding of its name during the call only; of two
\* frames binding a name the inner one is read; and a frame made for one
\* call is not seen by the next.
C3_LexicalScoping ==
    AtHead =>
        /\ \A name \in DOMAIN env.bindings :
              (/\ FreeVarLambda(name)
               /\ Environment_get(env.bindings[name].closure, FreeVar(name)) # <<>>)
              => LET captured == Environment_get(env.bindings[name].closure,
                                                 FreeVar(name))[1]
                 IN  /\ Probe(CalledFromFrame(name)).res = Ok(captured)
                     /\ Probe(Form(Sym(name), <<Num0>>)).res = Ok(captured)
        /\ \A s \in DOMAIN env.bindings :
              /\ Probe(Form(Lambda(<<s>>, <<Sym(s)>>), <<Num99>>)).res
                    = Ok(ValueNumber(<<"9", "9">>))
              /\ Probe(Form(Lambda(<<s>>, <<Sym(s)>>), <<Num99>>)).st.env = env
              /\ Probe(ShadowTwice(s)).res = Ok(ValueNumber(<<"7">>))
              /\ Probe(ShadowOnce(s)).res = Ok(ValueNumber(<<"9", "9">>))
        /\ SecondCall = IF N_q \in DOMAIN env.bindings
                        THEN Ok(env.bindings[N_q])
                        ELSE Err(UndefinedVariable(N_q))

\* A lambda whose captured binding of its free variable differs from the
\* binding the top-level frame has now, called from a frame with a third.
C3_Witness ==
    /\ AtHead
    /\ \E name \in DOMAIN env.bindings :
          /\ FreeVarLambda(name)
          /\ Environment_get(env.bindings[name].closure, FreeVar(name)) # <<>>
          /\ Environment_get(env.bindings[name].closure, FreeVar(name))
                # Environment_get(env, FreeVar(name))
          /\ Probe(CalledFromFrame(name)).res
                = Ok(Environment_get(env.bindings[name].closure, FreeVar(name))[1])

(***************************************************************************)
(* C4                                                                      *)
(***************************************************************************)
\* Every binding of frame e other than s is in frame e2 as it was, and the
\* ancestors are the same.
SameButFor(e, e2, s) ==
    /\ DOMAIN e2.bindings = DOMAIN e.bindings \cup {s}
    /\ \A n \in DOMAIN e.bindings \ {s} : e2.bindings[n] = e.bindings[n]
    /\ e2.parent = e.parent

\* (define s a) and then (define s b) in the top-level frame.
DefinedTwice(s, a, b) ==
    LET first == Probe(Define(s, a.x))
        second == eval(Define(s, b.x), first.st)
    IN  /\ first.res = Ok(a.val)
        /\ Environment_get(first.st.env, s) = <<a.val>>
        /\ SameButFor(env, first.st.env, s)
        /\ second.res = Ok(b.val)
        /\ Environment_get(second.st.env, s) = <<b.val>>
        /\ SameButFor(env, second.st.env, s)

\* ((lambda (p) (define s a) s) 99): the define runs in the frame of the
\* call.
DefinedInCall(s, a) ==
    LET r == Probe(Form(Lambda(<<N_p>>, <<Define(s, a.x), Sym(s)>>), <<Num99>>))
    IN  r.res = Ok(a.val) /\ r.st.env = env

\* The expression is (define s E) for a symbol s.
IsDefine(expr) ==
    /\ expr.sx = "List"
    /\ Len(expr.list) = 3
    /\ IsSymbol(expr.list[1], S_define)
    /\ expr.list[2].sx = "Atom"
    /\ expr.list[2].atom.at = "Symbol"

\* C4: define binds in the current frame only and returns the bound value.
\* After a define the name is bound to the value and nothing else of the
\* frame or its ancestors has changed, a second define of the name replaces
\* the first, a top-level define that has just run left its value as the
\* result and as the binding, and a define in a lambda body leaves the
\* caller's environment, with the lambda's captured environment in it, as
\* it was before the call.
C4_DefineCurrentFrame ==
    AtHead =>
        /\ \A s \in {N_x, N_p} : \A a \in ProbeArgs :
              /\ \A b \in ProbeArgs : DefinedTwice(s, a, b)
              /\ DefinedInCall(s, a)
        /\ (idx > 1 /\ IsDefine(sexprs[idx - 1])) =>
              /\ sexprs[idx - 1].list[2].atom.s \in DOMAIN env.bindings
              /\ env.bindings[sexprs[idx - 1].list[2].atom.s] = result
        /\ (IsLambda(N_g) /\ HasBuiltins(env.bindings[N_g].closure)) =>
              /\ Probe(Form(Sym(N_g), <<Num7>>)).res
                    = Ok(ValueCons(ValueNumber(<<"7">>), ValueNumber(<<"1">>)))
              /\ Probe(Form(Sym(N_g), <<Num7>>)).st.env = env

\* x has been defined twice at top level, and g, whose body defines y, is
\* there to be called.
C4_Witness ==
    /\ pc = "ok"
    /\ Len(sexprs) = 3
    /\ sexprs[1] = parse(T_define_x_1).out[1]
    /\ sexprs[3] = parse(T_define_x_2).out[1]
    /\ IsLambda(N_g)
    /\ env.bindings[N_x] = ValueNumber(<<"2">>)
    /\ result = ValueNumber(<<"2">>)
    /\ Probe(Form(Sym(N_g), <<Num7>>)).st.env = env

(***************************************************************************)
(* C5                                                                      *)
(***************************************************************************)
\* The first n of the argument expressions 5, 7, 99 and their values.
ArgExprs(n) == SubSeq(<<Num(<<"5">>), Num7, Num99>>, 1, n)

ArgValues(n) ==
    SubSeq(<<ValueNumber(<<"5">>), ValueNumber(<<"7">>),
             ValueNumber(<<"9", "9">>)>>, 1, n)

\* What the log holds when the call expression, its head and its n
\* arguments have been evaluated and nothing else.
CallPrefix(head, n) ==
    <<EvEval(Form(head, ArgExprs(n))), EvEval(head)>>
        \o [j \in 1..n |-> EvEval(ArgExprs(n)[j])]

\* The frame of a call of lambda f with n arguments.
CallFrame(f, n) ==
    [bindings |-> [s \in {f.params[j] : j \in 1..n} |->
                      ArgValues(n)[CHOOSE j \in 1..n :
                                      /\ f.params[j] = s
                                      /\ \A i \in (j + 1)..n : f.params[i] # s]],
     parent |-> <<f.closure>>]

\* The call of the lambda that head denotes, f, with n arguments behaves as
\* C5 says.  Bodies of one or two expressions are looked at.
CallBehaves(head, f, n) ==
    LET r == Probe(Form(head, ArgExprs(n)))
    IN  IF n # Len(f.params)
        THEN /\ r.res = Err(ArityError(ToString(Len(f.params)), n))
             /\ r.st.log = CallPrefix(head, n)
             /\ r.st.env = env
        ELSE LET b1 == eval(f.body[1], St(CallFrame(f, n), <<>>, IdentityHash))
                 b2 == eval(f.body[2], St(b1.st.env, <<>>, IdentityHash))
             IN  IF Len(f.body) = 1 \/ ~b1.res.ok
                 THEN /\ r.res = b1.res
                      /\ r.st.log = CallPrefix(head, n) \o <<EvFrame(f.params)>>
                                        \o b1.st.log
                 ELSE /\ r.res = b2.res
                      /\ r.st.log = CallPrefix(head, n) \o <<EvFrame(f.params)>>
                                        \o b1.st.log \o b2.st.log

\* (lambda (x p) x) and (lambda (x) (define p x) (cons p x)), made here.
LocalLambdas ==
    {Lambda(<<N_x, N_p>>, <<Sym(N_x)>>),
     Lambda(<<N_x>>, <<Define(N_p, Sym(N_x)), Form(Sym(N_cons), <<Sym(N_p), Sym(N_x)>>)>>)}

\* C5: a lambda called with a number of arguments other than its number of
\* parameters returns ArityError with the parameter count as expected and
\* the argument count as got, and then no frame is made and nothing of the
\* body is evaluated; with the right number the body's expressions are
\* evaluated in order in the new frame and the last value is the result.
C5_LambdaArity ==
    AtHead =>
        /\ \A name \in DOMAIN env.bindings : \A n \in 0..3 :
              (IsLambda(name) /\ Len(env.bindings[name].body) <= 2)
              => CallBehaves(Sym(name), env.bindings[name], n)
        /\ \A l \in LocalLambdas : \A n \in 0..3 :
              CallBehaves(l, Probe(l).res.val, n)

\* A lambda of the program is called with too few arguments and with the
\* right number.
C5_Witness ==
    /\ AtHead
    /\ IsLambda(N_g)
    /\ Probe(Form(Sym(N_g), <<>>)).res = Err(ArityError("1", 0))
    /\ Probe(Form(Lambda(<<N_x, N_p>>, <<Sym(N_x)>>), ArgExprs(3))).res
          = Err(ArityError("2", 3))
    /\ Probe(Form(Sym(N_g), <<Num7>>)).res.ok

(***************************************************************************)
(* C6                                                                      *)
(***************************************************************************)
\* Test expressions, their values, and whether the value counts as true.
IfTests ==
    { [x |-> Num0, val |-> ValueNumber(<<"0">>), truthy |-> TRUE],
      [x |-> SexprAtom(AtomString(<<>>)), val |-> ValueString(<<>>),
       truthy |-> TRUE],
      [x |-> Form(Sym(N_cons), <<Num7, Num0>>),
       val |-> ValueCons(ValueNumber(<<"7">>), ValueNumber(<<"0">>)),
       truthy |-> TRUE],
      [x |-> Form(Sym(N_null), <<SexprAtom(AtomNil)>>), val |-> ValueBool(TRUE),
       truthy |-> TRUE],
      [x |-> Quote(Sym(N_x)), val |-> ValueSymbol(N_x), truthy |-> TRUE],
      [x |-> SexprAtom(AtomNil), val |-> ValueNil, truthy |-> FALSE],
      [x |-> Form(Sym(N_null), <<Num7>>), val |-> ValueBool(FALSE),
       truthy |-> FALSE] }

\* The event is in the log.
Logged(events, event) == \E j \in 1..Len(events) : events[j] = event

\* (if t (define p 5) (define q 7)): one define happens, the other does not.
OneBranch(t) ==
    LET then == Define(N_p, Num(<<"5">>))
        else == Define(N_q, Num7)
        r == Probe(If(t.x, then, else))
    IN  /\ r.st.log[1] = EvEval(If(t.x, then, else))
        /\ r.st.log[2] = EvEval(t.x)
        /\ IF t.truthy
           THEN /\ r.res = Ok(ValueNumber(<<"5">>))
                /\ r.st.env = Environment_define(env, N_p, ValueNumber(<<"5">>))
                /\ Logged(r.st.log, EvEval(then))
                /\ ~Logged(r.st.log, EvEval(else))
           ELSE /\ r.res = Ok(ValueNumber(<<"7">>))
                /\ r.st.env = Environment_define(env, N_q, ValueNumber(<<"7">>))
                /\ Logged(r.st.log, EvEval(else))
                /\ ~Logged(r.st.log, EvEval(then))

\* (if t 5 zz) and (if t zz 7) with zz unbound: the error is returned only
\* when its branch is the one taken.
ErrorBranch(t) ==
    LET late == Probe(If(t.x, Num(<<"5">>), Sym(N_zz)))
        early == Probe(If(t.x, Sym(N_zz), Num7))
    IN  IF t.truthy
        THEN /\ late.res = Ok(ValueNumber(<<"5">>))
             /\ early.res = Err(UndefinedVariable(N_zz))
        ELSE /\ late.res = Err(UndefinedVariable(N_zz))
             /\ early.res = Ok(ValueNumber(<<"7">>))

\* The expression before the loop head is (if (null? x) zz (define k x)).
AfterIf == idx > 1 /\ sexprs[idx - 1] = parse(T_if).out[1]

\* C6: if evaluates the test and then one branch, the then-branch unless
\* the test value is Nil or Bool(false); 0, the empty string, a symbol and
\* a Cons count as true.  The other branch is not evaluated: its define
\* does not happen and its error is not returned.
C6_IfOneBranch ==
    (AtHead /\ HasBuiltins(env) /\ Environment_get(env, N_zz) = <<>>) =>
        /\ \A t \in IfTests :
              /\ Probe(t.x).res = Ok(t.val)
              /\ OneBranch(t)
              /\ ErrorBranch(t)
        /\ AfterIf =>
              /\ result = env.bindings[N_x]
              /\ env.bindings[N_k] = env.bindings[N_x]

\* The program's own if has run: x was not null, so k is defined and the
\* unbound zz of the other branch did no harm.
C6_Witness ==
    /\ pc = "ok"
    /\ AfterIf
    /\ N_k \in DOMAIN env.bindings
    /\ Environment_get(env, N_zz) = <<>>
    /\ Probe(If(Num0, Num(<<"5">>), Sym(N_zz))).res = Ok(ValueNumber(<<"5">>))

(***************************************************************************)
(* C7                                                                      *)
(***************************************************************************)
\* The environments a program can start in: the builtins, and table for
\* transform_table.
StartEnvs ==
    IF entry = "transform_table"
    THEN {Environment_define(create_global_env, N_table, Tables[t]) :
             t \in DOMAIN Tables}
    ELSE {create_global_env}

RECURSIVE Runs(_, _, _)
\* The outcomes of evaluating xs[1..n] one after the other from frame e0,
\* each in the environment the one before left, giving up at the first
\* error: at is the last expression evaluated.
Runs(xs, n, e0) ==
    IF n = 0
    THEN {[at |-> 0, res |-> Ok(ValueNil), st |-> St(e0, <<>>, IdentityHash)]}
    ELSE UNION {
            IF ~before.res.ok THEN {before}
            ELSE {[at |-> n, res |-> r.res, st |-> r.st] :
                     r \in {eval(xs[n], [before.st EXCEPT !.hash = h]) :
                               h \in HashChoices(xs[n], before.st.env,
                                                 before.st.log)}}
            : before \in Runs(xs, n - 1, e0)}

\* Expressions 1..n of the program all define a name that is still bound.
DefinitionsVisible(n) ==
    \A i \in 1..n :
        IsDefine(sexprs[i]) => Environment_get(env, sexprs[i].list[2].atom.s) # <<>>

\* C7: once the program has parsed, its expressions are evaluated one at a
\* time in source order against one environment that starts with the
\* builtins (and table); what an expression defines stays visible; the
\* value held after the last expression is the result, Nil when there is
\* no expression; at the first error the run ends with that error and
\* nothing after it is evaluated.
C7_ProgramEntry ==
    (pc # "input" /\ ~(pc = "err" /\ error[1].e = "ParseError")) =>
        /\ sexprs = parse(text).out
        /\ \E e0 \in StartEnvs :
           \E run \in Runs(sexprs, IF pc = "err" THEN idx ELSE idx - 1, e0) :
              /\ run.st.env = env
              /\ run.st.log = log
              /\ pc = "loop" =>
                    /\ idx \in 1..Len(sexprs)
                    /\ run.res = Ok(result)
                    /\ DefinitionsVisible(idx - 1)
              /\ pc = "ok" =>
                    /\ idx = Len(sexprs) + 1
                    /\ run.res = Ok(result)
                    /\ sexprs = <<>> => result = ValueNil
                    /\ DefinitionsVisible(Len(sexprs))
              /\ pc = "err" =>
                    /\ run.at = idx
                    /\ ~run.res.ok
                    /\ error = <<EvalFailure(run.res.err)>>
                    /\ DefinitionsVisible(idx - 1)

\* The second of three expressions returned an error: the first was
\* evaluated, the third was not.
C7_Witness ==
    /\ pc = "err"
    /\ idx = 2
    /\ Len(sexprs) = 3
    /\ error[1].e \in {"EvalError", "String"}
    /\ Logged(log, EvEval(sexprs[1]))
    /\ ~Logged(log, EvEval(sexprs[3]))

(***************************************************************************)
(* C8                                                                      *)
(***************************************************************************)
\* Nothing but whitespace.
IsBlank(input) == \A j \in 1..Len(input) : input[j] \in Multispace

\* C8: transform_table returns a parse error exactly when what parse left
\* unconsumed is something other than whitespace; with a blank remainder
\* the program is evaluated.
C8_RejectsOnlyGarbage ==
    (entry = "transform_table" /\ pc # "input") =>
        ((pc = "err" /\ error[1].e = "ParseError") <=> ~IsBlank(parse(text).rest))

(***************************************************************************)
(* C9                                                                      *)
(***************************************************************************)
\* What parse consumed of the input.
Consumed(input) == Take(input, Len(input) - Len(parse(input).rest))

\* C9: parse succeeds on every text.  What it leaves is the end of the
\* text, starting right after the last expression it read, before any
\* whitespace or comment that follows; the expressions it returns are
\* those of the part it consumed, all of them and in order; and no
\* expression can be read at the point where it stopped, so an expression
\* that cannot be parsed is left whole in the remainder.  eval_program,
\* which ignores the remainder, gets these expressions and no parse error.
C9_ParseNeverFails ==
    LET p == parse(text)
    IN  /\ p.ok
        /\ text = Consumed(text) \o p.rest
        /\ p.out = <<>> => Consumed(text) = <<>>
        /\ p.out # <<>> =>
              /\ Consumed(text) # <<>>
              /\ Consumed(text)[Len(Consumed(text))] \notin Multispace
        /\ parse(Consumed(text)) = POk(<<>>, p.out)
        /\ ~parse_sexpr(p.rest).ok
        /\ (entry = "eval_program" /\ pc # "input") =>
              /\ sexprs = p.out
              /\ ~(pc = "err" /\ error[1].e = "ParseError")

\* eval_program got an expression from a text whose tail cannot be parsed.
C9_Witness ==
    /\ entry = "eval_program"
    /\ pc # "input"
    /\ sexprs # <<>>
    /\ ~IsBlank(parse(text).rest)

(***************************************************************************)
(* C10                                                                     *)
(***************************************************************************)
RECURSIVE HeadsNonEmpty(_)
\* No DottedList in the expression has an empty head sequence.
HeadsNonEmpty(expr) ==
    CASE expr.sx = "Atom" -> TRUE
      [] expr.sx = "List" ->
            \A j \in 1..Len(expr.list) : HeadsNonEmpty(expr.list[j])
      [] expr.sx = "DottedList" ->
            /\ expr.list # <<>>
            /\ \A j \in 1..Len(expr.list) : HeadsNonEmpty(expr.list[j])
            /\ HeadsNonEmpty(expr.tail)

\* C10: whatever the text, no DottedList among the expressions parse has
\* returned to the program, at any depth, has an empty head sequence.
C10_DottedHeadNonEmpty ==
    pc # "input" =>
        /\ \A j \in 1..Len(sexprs) : HeadsNonEmpty(sexprs[j])
        /\ \A j \in 1..Len(parse(text).out) : HeadsNonEmpty(parse(text).out[j])

(***************************************************************************)
(* C13                                                                     *)
(***************************************************************************)
RECURSIVE SkipBlanks(_)
\* The input after its longest prefix of whitespace characters and line
\* comments, where a comment is ';' and everything up to the next newline
\* or the end of input, possibly nothing.
SkipBlanks(input) ==
    IF input = <<>> THEN input
    ELSE IF input[1] \in Multispace THEN SkipBlanks(Tail(input))
    ELSE IF input[1] = ";"
         THEN SkipBlanks(Drop(input, 1 + SpanNotIn(Tail(input), {"\n"})))
         ELSE input

\* C13: ws succeeds on every text and consumes the longest prefix made of
\* whitespace characters and line comments, a comment being ';' up to the
\* next newline or the end of input with zero or more characters after the
\* ';'.  What it leaves begins neither with a whitespace character nor with
\* ';', and ws consumes nothing of what it left.
C13_WsMaximalPrefix ==
    pc # "input" =>
        LET w == ws(text)
        IN  /\ w.ok
            /\ text = w.out \o w.rest
            /\ w.rest = SkipBlanks(text)
            /\ w.rest # <<>> => w.rest[1] \notin (Multispace \cup {";"})
            /\ ws(w.rest) = POk(w.rest, <<>>)

(***************************************************************************)
(* C11                                                                     *)
(***************************************************************************)
RECURSIVE NoEmptyList(_)
\* No List in the expression has zero elements.
NoEmptyList(expr) ==
    CASE expr.sx = "Atom" -> TRUE
      [] expr.sx = "List" ->
            /\ expr.list # <<>>
            /\ \A j \in 1..Len(expr.list) : NoEmptyList(expr.list[j])
      [] expr.sx = "DottedList" ->
            /\ \A j \in 1..Len(expr.list) : NoEmptyList(expr.list[j])
            /\ NoEmptyList(expr.tail)

\* The text opens with '(' and, whitespace and comments skipped, ')'.
OpensEmptyList(input) ==
    /\ starts_with(input, "(")
    /\ starts_with(SkipBlanks(Tail(input)), ")")

\* No expression parse has returned to the program holds a List of zero
\* elements.
ListsNonEmpty ==
    /\ \A j \in 1..Len(sexprs) : NoEmptyList(sexprs[j])
    /\ \A j \in 1..Len(parse(text).out) : NoEmptyList(parse(text).out[j])

\* C11: no List of zero elements is among the expressions parse returns,
\* at any depth, and a text that opens with '(' and ')' with nothing but
\* whitespace and comments between them has Atom(Nil) as its first
\* expression.
C11_EmptyListIsNil ==
    pc # "input" =>
        /\ ListsNonEmpty
        /\ OpensEmptyList(text) =>
              /\ parse(text).out # <<>>
              /\ parse(text).out[1] = SexprAtom(AtomNil)


(***************************************************************************)
(* C12: the quote shorthand                                                *)
(***************************************************************************)

\* The text reads as exactly one expression and nothing is left over.
Accepted(input) ==
    /\ parse(input).rest = <<>>
    /\ Len(parse(input).out) = 1

\* Separators with at least one character in every comment.
Separators ==
    { <<>>, <<" ">>, <<"\n">>, <<";", "a", "\n">>,
      <<" ", ";", " ", "\n", " ">> }

\* A comment with no character after the semicolon.
EmptyComment == <<";", "\n">>

T_quote_open == <<"(", "q", "u", "o", "t", "e", " ">>

OneExpr(expr) == POk(<<>>, <<expr>>)

QuoteSugar(seps) ==
    (pc # "input" /\ Accepted(text)) =>
        LET x == parse(text).out[1]
        IN  \A a \in seps :
              /\ parse(<<"'">> \o a \o text) = OneExpr(Quote(x))
              /\ parse(T_quote_open \o a \o text \o <<")">>)
                     = OneExpr(Quote(x))
              /\ \A b \in seps :
                    /\ parse(<<"'">> \o a \o <<"'">> \o b \o text)
                           = OneExpr(Quote(Quote(x)))
                    /\ parse(T_quote_open \o a \o T_quote_open \o b \o text
                                 \o <<")", ")">>)
                           = OneExpr(Quote(Quote(x)))

\* With separators whose comments are non-empty the shorthand and the long
\* form agree on every accepted text.
QuoteSugarNonEmptyComments == QuoteSugar(Separators)

\* C12: for every text X that reads as one expression x, "'X" and
\* "(quote X)" both read as the single list [quote, x]; the same holds for
\* nested quotes and when whitespace or comments (a comment may end right
\* after its semicolon) stand between the quote mark and X.
C12_QuoteSugar == QuoteSugar(Separators \cup {EmptyComment})

(***************************************************************************)
(* Programs of one expression over generated tables                        *)
(***************************************************************************)
\* Rows in a generated table.
MaxRows == 3

\* ("a" . 1)
Row_a_1 == ValueCons(ValueString(<<"a">>), ValueNumber(<<"1">>))

\* ("a" . 2)
Row_a_2 == ValueCons(ValueString(<<"a">>), ValueNumber(<<"2">>))

\* (a . 1), the key a symbol
Row_sym_1 == ValueCons(ValueSymbol(<<"a">>), ValueNumber(<<"1">>))

\* ("b" . 1)
Row_b_1 == ValueCons(ValueString(<<"b">>), ValueNumber(<<"1">>))

\* 7, an element that is not a pair
Row_7 == ValueNumber(<<"7">>)

Rows == {Row_a_1, Row_a_2, Row_sym_1, Row_b_1, Row_7}

\* What a generated table ends in: Nil, or a value that is no list.
Tails == {ValueNil, ValueNumber(<<"9">>)}

\* Vec<Value> -> Value with the given last cdr.
RECURSIVE cons_onto(_, _)
cons_onto(values, tail) ==
    IF values = <<>> THEN tail
    ELSE ValueCons(values[1], cons_onto(Tail(values), tail))

TableInputs ==
    UNION { { cons_onto(rows, t) : rows \in [1..n -> Rows], t \in Tails } :
            n \in 0..MaxRows }

\* (group-by table car)
T_group_by_car ==
    <<"(", "g", "r", "o", "u", "p", "-", "b", "y", " ", "t", "a", "b", "l",
    "e", " ", "c", "a", "r", ")">>

\* (group-by table (lambda (r) (cdr r)))
T_group_by_cdr ==
    <<"(", "g", "r", "o", "u", "p", "-", "b", "y", " ", "t", "a", "b", "l",
    "e", " ", "(", "l", "a", "m", "b", "d", "a", " ", "(", "r", ")", " ",
    "(", "c", "d", "r", " ", "r", ")", ")", ")">>

\* (assoc "a" table)
T_assoc_a ==
    <<"(", "a", "s", "s", "o", "c", " ", "\"", "a", "\"", " ", "t", "a", "b",
    "l", "e", ")">>

\* (assoc 'a table)
T_assoc_sym ==
    <<"(", "a", "s", "s", "o", "c", " ", "'", "a", " ", "t", "a", "b", "l",
    "e", ")">>

\* (assoc "b" table)
T_assoc_b ==
    <<"(", "a", "s", "s", "o", "c", " ", "\"", "b", "\"", " ", "t", "a", "b",
    "l", "e", ")">>

\* (equal? car car)
T_equal_car ==
    <<"(", "e", "q", "u", "a", "l", "?", " ", "c", "a", "r", " ", "c", "a",
    "r", ")">>

\* (equal? table table)
T_equal_table ==
    <<"(", "e", "q", "u", "a", "l", "?", " ", "t", "a", "b", "l", "e", " ",
    "t", "a", "b", "l", "e", ")">>

\* (equal? 1 "1")
T_equal_kinds ==
    <<"(", "e", "q", "u", "a", "l", "?", " ", "1", " ", "\"", "1", "\"", ")">>

\* (equal? (lambda (r) r) (lambda (r) r))
T_equal_lambda ==
    <<"(", "e", "q", "u", "a", "l", "?", " ", "(", "l", "a", "m", "b", "d",
    "a", " ", "(", "r", ")", " ", "r", ")", " ", "(", "l", "a", "m", "b",
    "d", "a", " ", "(", "r", ")", " ", "r", ")", ")">>

\* (lambda () 1)
T_lambda_unit ==
    <<"(", "l", "a", "m", "b", "d", "a", " ", "(", ")", " ", "1", ")">>

\* ((lambda () 1))
T_call_unit ==
    <<"(", "(", "l", "a", "m", "b", "d", "a", " ", "(", ")", " ", "1", ")",
    ")">>

\* (lambda r 1)
T_lambda_atom ==
    <<"(", "l", "a", "m", "b", "d", "a", " ", "r", " ", "1", ")">>

\* (lambda (1) 1)
T_lambda_num ==
    <<"(", "l", "a", "m", "b", "d", "a", " ", "(", "1", ")", " ", "1", ")">>

\* (lambda (r) r)
T_lambda_r ==
    <<"(", "l", "a", "m", "b", "d", "a", " ", "(", "r", ")", " ", "r", ")">>

\* ((lambda (r) r) 1)
T_call_r ==
    <<"(", "(", "l", "a", "m", "b", "d", "a", " ", "(", "r", ")", " ", "r",
    ")", " ", "1", ")">>

\* 'zz
T_quote_sym ==
    <<"'", "z", "z">>

\* '(a b c)
T_quote_list ==
    <<"'", "(", "a", " ", "b", " ", "c", ")">>

\* '(a . b)
T_quote_dotted ==
    <<"'", "(", "a", " ", ".", " ", "b", ")">>

\* '(a . (b c))
T_quote_dotted_list ==
    <<"'", "(", "a", " ", ".", " ", "(", "b", " ", "c", ")", ")">>

\* (quote (define x 1))
T_quote_form ==
    <<"(", "q", "u", "o", "t", "e", " ", "(", "d", "e", "f", "i", "n", "e",
    " ", "x", " ", "1", ")", ")">>

\* '(a (b . c) ())
T_quote_nested ==
    <<"'", "(", "a", " ", "(", "b", " ", ".", " ", "c", ")", " ", "(", ")",
    ")">>

\* (cons zz (define k 1))
T_call_arg_fails ==
    <<"(", "c", "o", "n", "s", " ", "z", "z", " ", "(", "d", "e", "f", "i",
    "n", "e", " ", "k", " ", "1", ")", ")">>

\* (zz (define k 1))
T_call_head_fails ==
    <<"(", "z", "z", " ", "(", "d", "e", "f", "i", "n", "e", " ", "k", " ",
    "1", ")", ")">>

\* (7 (define k 1))
T_call_non_function ==
    <<"(", "7", " ", "(", "d", "e", "f", "i", "n", "e", " ", "k", " ", "1",
    ")", ")">>

\* (7 (define k 1) zz)
T_call_late_failure ==
    <<"(", "7", " ", "(", "d", "e", "f", "i", "n", "e", " ", "k", " ", "1",
    ")", " ", "z", "z", ")">>

\* (car (define k 1) 2)
T_call_arity ==
    <<"(", "c", "a", "r", " ", "(", "d", "e", "f", "i", "n", "e", " ", "k",
    " ", "1", ")", " ", "2", ")">>

\* (if (define k 1))
T_if_arity ==
    <<"(", "i", "f", " ", "(", "d", "e", "f", "i", "n", "e", " ", "k", " ",
    "1", ")", ")">>

\* (define 7 (define k 1))
T_define_target ==
    <<"(", "d", "e", "f", "i", "n", "e", " ", "7", " ", "(", "d", "e", "f",
    "i", "n", "e", " ", "k", " ", "1", ")", ")">>

\* (cons 1)
T_cons_arity ==
    <<"(", "c", "o", "n", "s", " ", "1", ")">>

\* (k (define k 1) . 7)
T_dotted_right_first ==
    <<"(", "k", " ", "(", "d", "e", "f", "i", "n", "e", " ", "k", " ", "1",
    ")", " ", ".", " ", "7", ")">>

\* ((define k 1) k . 7)
T_dotted_left_late ==
    <<"(", "(", "d", "e", "f", "i", "n", "e", " ", "k", " ", "1", ")", " ",
    "k", " ", ".", " ", "7", ")">>

\* (cons 1 . 2)
T_dotted_no_call ==
    <<"(", "c", "o", "n", "s", " ", "1", " ", ".", " ", "2", ")">>

\* ((define k 1) . zz)
T_dotted_tail_fails ==
    <<"(", "(", "d", "e", "f", "i", "n", "e", " ", "k", " ", "1", ")", " ",
    ".", " ", "z", "z", ")">>

\* (cons (define g (lambda (p) g)) (g 1))
T_self_call ==
    <<"(", "c", "o", "n", "s", " ", "(", "d", "e", "f", "i", "n", "e", " ",
    "g", " ", "(", "l", "a", "m", "b", "d", "a", " ", "(", "p", ")", " ",
    "g", ")", ")", " ", "(", "g", " ", "1", ")", ")">>

\* (cons (define if car) (if 1 2 3))
T_if_rebound ==
    <<"(", "c", "o", "n", "s", " ", "(", "d", "e", "f", "i", "n", "e", " ",
    "i", "f", " ", "c", "a", "r", ")", " ", "(", "i", "f", " ", "1", " ",
    "2", " ", "3", ")", ")">>

\* ((lambda (quote) 'k) car)
T_quote_param ==
    <<"(", "(", "l", "a", "m", "b", "d", "a", " ", "(", "q", "u", "o", "t",
    "e", ")", " ", "'", "k", ")", " ", "c", "a", "r", ")">>

\* (cons (define define 7) (define k 1))
T_define_rebound ==
    <<"(", "c", "o", "n", "s", " ", "(", "d", "e", "f", "i", "n", "e", " ",
    "d", "e", "f", "i", "n", "e", " ", "7", ")", " ", "(", "d", "e", "f",
    "i", "n", "e", " ", "k", " ", "1", ")", ")">>

\* (cons (define lambda car) ((lambda (if) (if if 1 2)) 7))
T_lambda_rebound ==
    <<"(", "c", "o", "n", "s", " ", "(", "d", "e", "f", "i", "n", "e", " ",
    "l", "a", "m", "b", "d", "a", " ", "c", "a", "r", ")", " ", "(", "(",
    "l", "a", "m", "b", "d", "a", " ", "(", "i", "f", ")", " ", "(", "i",
    "f", " ", "i", "f", " ", "1", " ", "2", ")", ")", " ", "7", ")", ")">>

\* (group-by table (lambda (r) r))
T_group_by_self ==
    <<"(", "g", "r", "o", "u", "p", "-", "b", "y", " ", "t", "a", "b", "l",
    "e", " ", "(", "l", "a", "m", "b", "d", "a", " ", "(", "r", ")", " ",
    "r", ")", ")">>

\* (group-by table 7)
T_group_by_7 ==
    <<"(", "g", "r", "o", "u", "p", "-", "b", "y", " ", "t", "a", "b", "l",
    "e", " ", "7", ")">>

\* (group-by table (lambda (r) (null? r)))
T_group_by_null ==
    <<"(", "g", "r", "o", "u", "p", "-", "b", "y", " ", "t", "a", "b", "l",
    "e", " ", "(", "l", "a", "m", "b", "d", "a", " ", "(", "r", ")", " ",
    "(", "n", "u", "l", "l", "?", " ", "r", ")", ")", ")">>

\* (group-by table (lambda (r) car))
T_group_by_fn ==
    <<"(", "g", "r", "o", "u", "p", "-", "b", "y", " ", "t", "a", "b", "l",
    "e", " ", "(", "l", "a", "m", "b", "d", "a", " ", "(", "r", ")", " ",
    "c", "a", "r", ")", ")">>

\* (group-by table (lambda (r) ()))
T_group_by_nil ==
    <<"(", "g", "r", "o", "u", "p", "-", "b", "y", " ", "t", "a", "b", "l",
    "e", " ", "(", "l", "a", "m", "b", "d", "a", " ", "(", "r", ")", " ",
    "(", ")", ")", ")">>

OneSnippets ==
    {T_group_by_car, T_group_by_cdr, T_assoc_a, T_assoc_sym, T_assoc_b,
     T_equal_car, T_equal_table, T_equal_kinds, T_equal_lambda,
     T_lambda_unit, T_call_unit, T_lambda_atom, T_lambda_num, T_lambda_r,
     T_call_r, T_quote_sym, T_quote_list, T_quote_dotted,
     T_quote_dotted_list, T_quote_form, T_quote_nested, T_call_arg_fails,
     T_call_head_fails, T_call_non_function, T_call_late_failure,
     T_call_arity, T_if_arity, T_define_target, T_cons_arity,
     T_dotted_right_first, T_dotted_left_late, T_dotted_no_call,
     T_dotted_tail_fails, T_self_call, T_if_rebound, T_quote_param,
     T_define_rebound, T_lambda_rebound, T_group_by_self, T_group_by_7,
     T_group_by_null, T_group_by_fn, T_group_by_nil}

\* The caller writes a program of one expression.
PasteOne(s) ==
    /\ nexpr = 0
    /\ Paste(s)

NextOne ==
    \/ \E s \in OneSnippets : PasteOne(s)
    \/ \E t \in TableInputs : transform_table(t)
    \/ eval_program
    \/ Step

SpecOne == Init /\ [][NextOne]_vars

(***************************************************************************)
(* C14: group-by                                                           *)
(***************************************************************************)

\* The elements along the cdr chain of a value, and what the chain ends in.
RECURSIVE Spine(_)
Spine(value) ==
    IF value.v = "Cons" THEN <<value.car>> \o Spine(value.cdr) ELSE <<>>

RECURSIVE LastCdr(_)
LastCdr(value) == IF value.v = "Cons" THEN LastCdr(value.cdr) ELSE value

RECURSIVE SumLen(_)
SumLen(seqs) ==
    IF seqs = <<>> THEN 0 ELSE Len(seqs[1]) + SumLen(Tail(seqs))

\* The program is the one expression (head a b).
IsCallOf(head) ==
    /\ Len(sexprs) = 1
    /\ sexprs[1].sx = "List"
    /\ Len(sexprs[1].list) = 3
    /\ sexprs[1].list[1] = Sym(head)

\* The table handed to transform_table.
TheTable == Environment_get(env, N_table)[1]

\* The text of the key the function value gives the row.
KeyText(func, row) ==
    value_to_string(
        apply_function(func, <<row>>, St(env, <<>>, IdentityHash)).res.val).val

\* The rows with the key, in the order of the table.
RowsWithKey(func, rows, key) ==
    LET HasKey(row) == KeyText(func, row) = key
    IN  SelectSeq(rows, HasKey)

IsAlistOfGroups(groups) ==
    \A j \in 1..Len(groups) :
        /\ groups[j].v = "Cons"
        /\ groups[j].car.v = "String"
        /\ LastCdr(groups[j].cdr) = ValueNil

IsPartition(func, rows, groups) ==
    /\ SumLen([j \in 1..Len(groups) |-> Spine(groups[j].cdr)]) = Len(rows)
    /\ \A j \in 1..Len(groups) :
          Spine(groups[j].cdr) = RowsWithKey(func, rows, groups[j].car.s)
    /\ \A i, j \in 1..Len(groups) :
          groups[i].car = groups[j].car => i = j

\* C14: when (group-by table f) returns, the result is a list of
\* (key . group) pairs whose groups partition the table: the sizes of the
\* groups sum to the length of the table, each group is the rows whose key
\* text is the group's key in the order they have in the table, and no two
\* groups have the same key.
C14_GroupByPartition ==
    (pc = "ok" /\ IsCallOf(N_group_by)) =>
        /\ LastCdr(result) = ValueNil
        /\ IsAlistOfGroups(Spine(result))
        /\ IsPartition(Probe(sexprs[1].list[3]).res.val,
                       Spine(TheTable), Spine(result))

\* Two groups, one of them of two rows, the first row's group first in the
\* result: an iteration order of the map other than the order of insertion
\* reversed.
C14_Witness ==
    /\ pc = "ok"
    /\ IsCallOf(N_group_by)
    /\ Len(Spine(result)) = 2
    /\ Len(Spine(TheTable)) = 3
    /\ result.car.car.s =
           KeyText(Probe(sexprs[1].list[3]).res.val, TheTable.car)

\* The same table and function with the groups in the other order.
C14_OtherOrder ==
    /\ pc = "ok"
    /\ IsCallOf(N_group_by)
    /\ Len(Spine(result)) = 2
    /\ Len(Spine(TheTable)) = 3
    /\ result.car.car.s #
           KeyText(Probe(sexprs[1].list[3]).res.val, TheTable.car)

(***************************************************************************)
(* C15, C16: assoc                                                         *)
(***************************************************************************)

\* (assoc key table) has been evaluated, or has failed.
AssocDone ==
    /\ pc \in {"ok", "err"}
    /\ entry = "transform_table"
    /\ IsCallOf(N_assoc)

\* The key the program gives assoc.
TheKey == Probe(sexprs[1].list[2]).res.val

\* The positions of the pairs whose car is the key.
Matches(key, elems) ==
    {j \in 1..Len(elems) : elems[j].v = "Cons" /\ elems[j].car = key}

Least(S) == CHOOSE j \in S : \A k \in S : j <= k

\* C15: (assoc key table) returns the first pair of the table whose car is
\* the key, whatever comes after that pair (more pairs with the key,
\* elements that are no pairs, a tail that is no list); when no pair has the
\* key and the table ends in Nil it returns Nil.
C15_AssocFirstMatch ==
    AssocDone =>
        LET elems == Spine(TheTable)
            found == Matches(TheKey, elems)
        IN  /\ found # {} =>
                  /\ pc = "ok"
                  /\ result = elems[Least(found)]
                  /\ builtin_assoc(<<TheKey,
                                     list_to_cons(Take(elems, Least(found)))>>)
                         = Ok(result)
            /\ (found = {} /\ LastCdr(TheTable) = ValueNil) =>
                  /\ pc = "ok"
                  /\ result = ValueNil

\* Two different pairs have the key, another element stands before them and
\* the table does not end in Nil.
C15_Witness ==
    /\ AssocDone
    /\ pc = "ok"
    /\ result = Row_a_2
    /\ Len(Spine(TheTable)) = 3
    /\ Spine(TheTable)[3] = Row_a_1
    /\ LastCdr(TheTable) # ValueNil

\* The evaluation has failed with a TypeError.
FailedWithTypeError ==
    /\ pc = "err"
    /\ error[1].e = "EvalError"
    /\ error[1].cause.e = "TypeError"

\* The positions of the elements that are no pairs.
NonPairs(elems) == {j \in 1..Len(elems) : elems[j].v # "Cons"}

\* The scan reaches the end of a table that does not end in Nil: TypeError.
AssocTailTypeError ==
    AssocDone =>
        ((Matches(TheKey, Spine(TheTable)) = {}
              /\ LastCdr(TheTable) # ValueNil)
            => FailedWithTypeError)

\* The scan reaches an element that is no pair: TypeError.
AssocElementTypeError ==
    AssocDone =>
        LET elems == Spine(TheTable)
            found == Matches(TheKey, elems)
            bad == NonPairs(elems)
        IN  (bad # {} /\ (found = {} \/ Least(bad) < Least(found)))
                => FailedWithTypeError

\* C16: (assoc key table) fails with a TypeError when, before a pair with
\* the key is found, the scan reaches an element that is not a pair, or
\* reaches a tail that is neither a pair nor Nil.
C16_AssocTypeError == AssocElementTypeError /\ AssocTailTypeError

(***************************************************************************)
(* C17: equal?                                                             *)
(***************************************************************************)

\* No Primitive and no Lambda anywhere in the value.
RECURSIVE IsData(_)
IsData(value) ==
    CASE value.v \in {"Primitive", "Lambda"} -> FALSE
      [] value.v = "Cons" -> IsData(value.car) /\ IsData(value.cdr)
      [] OTHER -> TRUE

\* The value and every value in it.
RECURSIVE Parts(_)
Parts(value) ==
    IF value.v = "Cons"
    THEN {value} \cup Parts(value.car) \cup Parts(value.cdr)
    ELSE {value}

\* (lambda (r) r) evaluated in the program's environment.
IdentityLambda == Probe(Lambda(<<N_r>>, <<Sym(N_r)>>)).res.val

\* Values to compare: everything bound in the environment (the builtins and
\* the table) with all its parts, a lambda, and pairs that hold a function.
Pool ==
    LET bound == {env.bindings[n] : n \in DOMAIN env.bindings}
        functions == {ValuePrimitive("builtin_car"), IdentityLambda}
        plain == { ValueNil, ValueBool(TRUE), ValueBool(FALSE),
                   ValueNumber(<<"1">>), ValueString(<<"1">>),
                   ValueSymbol(<<"a">>), ValueString(<<"a">>) }
    IN  UNION {Parts(b) : b \in bound} \cup functions \cup plain
          \cup {ValueCons(f, ValueNil) : f \in functions}
          \cup {ValueCons(ValueNumber(<<"1">>), f) : f \in functions}

\* (equal? a b) has been evaluated with the table bound.
EqualDone ==
    /\ pc = "ok"
    /\ entry = "transform_table"
    /\ IsCallOf(N_equal)

TheEvalError ==
    IF entry = "transform_table" THEN error[1].cause ELSE error[1].msg[2]

\* The program is the one expression (lambda spec body...).
IsLambdaForm(expr) ==
    /\ expr.sx = "List"
    /\ Len(expr.list) >= 3
    /\ expr.list[1] = Sym(S_lambda)

LambdaDone ==
    /\ pc \in {"ok", "err"}
    /\ Len(sexprs) = 1
    /\ IsLambdaForm(sexprs[1])

\* The empty list as the reader returns it.
EmptyList == SexprAtom(AtomNil)

\* A list of symbols, the empty list included.
IsSymbolList(expr) ==
    \/ expr = EmptyList
    \/ /\ expr.sx = "List"
       /\ \A j \in 1..Len(expr.list) :
             expr.list[j].sx = "Atom" /\ expr.list[j].atom.at = "Symbol"

ParamNames(expr) ==
    IF expr.sx = "List"
    THEN [j \in 1..Len(expr.list) |-> expr.list[j].atom.s]
    ELSE <<>>

LambdaOutcome(expr) ==
    IF IsSymbolList(expr.list[2])
    THEN /\ pc = "ok"
         /\ result.v = "Lambda"
         /\ result.params = ParamNames(expr.list[2])
         /\ result.body = SubSeq(expr.list, 3, Len(expr.list))
    ELSE /\ pc = "err"
         /\ TheEvalError.e = "TypeError"

\* A parameter list of one or more elements: a Lambda with those parameters
\* when all are symbols, TypeError otherwise; TypeError too for a parameter
\* spec that is a symbol.
LambdaNonEmptySpec ==
    (LambdaDone /\ sexprs[1].list[2] # EmptyList) => LambdaOutcome(sexprs[1])

\* The program is a call, without arguments, of (lambda () body...).
IsUnitCall ==
    /\ pc \in {"ok", "err"}
    /\ Len(sexprs) = 1
    /\ sexprs[1].sx = "List"
    /\ Len(sexprs[1].list) = 1
    /\ IsLambdaForm(sexprs[1].list[1])
    /\ sexprs[1].list[1].list[2] = EmptyList

\* C18: (lambda spec body...) evaluates to a Lambda whose parameters are
\* the names in spec when spec is a list of symbols, the empty list
\* included, and fails with TypeError for any other spec; a lambda with the
\* empty parameter list, called without arguments, returns the value of its
\* body.
C18_LambdaParamSpec ==
    /\ LambdaDone => LambdaOutcome(sexprs[1])
    /\ IsUnitCall =>
          /\ pc = "ok"
          /\ result = Probe(sexprs[1].list[1].list[3]).res.val

(***************************************************************************)
(* C19: quote                                                              *)
(***************************************************************************)

\* The program is the one expression (quote x), evaluated.
QuoteDone ==
    /\ pc \in {"ok", "err"}
    /\ Len(sexprs) = 1
    /\ sexprs[1].sx = "List"
    /\ Len(sexprs[1].list) = 2
    /\ sexprs[1].list[1] = Sym(QUOTE_SYMBOL)

\* The data an expression stands for: an atom is itself, a list is the chain
\* of pairs of its elements ending in Nil, a dotted list the chain ending in
\* its tail.
RECURSIVE Converted(_)
Converted(expr) ==
    CASE expr.sx = "Atom" ->
            (CASE expr.atom.at = "Nil" -> ValueNil
               [] expr.atom.at = "Number" -> ValueNumber(expr.atom.n)
               [] expr.atom.at = "String" -> ValueString(expr.atom.s)
               [] expr.atom.at = "Symbol" -> ValueSymbol(expr.atom.s))
      [] expr.sx = "List" ->
            cons_onto([j \in 1..Len(expr.list) |-> Converted(expr.list[j])],
                      ValueNil)
      [] expr.sx = "DottedList" ->
            cons_onto([j \in 1..Len(expr.list) |-> Converted(expr.list[j])],
                      Converted(expr.tail))

\* The environments a program of one expression starts in.
OneStartEnvs ==
    IF entry = "transform_table"
    THEN {Environment_define(create_global_env, N_table, t) : t \in TableInputs}
    ELSE {create_global_env}

\* Expressions to quote: a bound name, an unbound name, a number, the empty
\* list, lists of them, and dotted lists with an atom or a list as tail.
QuoteAtoms == {Sym(N_car), Sym(N_zz), Num(<<"1">>), EmptyList}

QuoteLists ==
    UNION { {SexprList(l) : l \in [1..n -> QuoteAtoms]} : n \in 1..2 }

QuoteDotted ==
    UNION { {SexprDottedList(l, t) :
                l \in [1..n -> QuoteAtoms], t \in QuoteAtoms \cup QuoteLists} :
            n \in 1..2 }

QuoteArgs == QuoteAtoms \cup QuoteLists \cup QuoteDotted

\* The proper list a dotted list with a list as tail is the same data as.
Flattened(expr) ==
    IF expr.sx = "DottedList" /\ expr.tail.sx = "List"
    THEN SexprList(expr.list \o expr.tail.list)
    ELSE IF expr.sx = "DottedList" /\ expr.tail = EmptyList
         THEN SexprList(expr.list)
         ELSE expr

QuoteOutcome(expr, r, before) ==
    /\ r.res = Ok(Converted(expr))
    /\ r.st.env = before
    /\ r.st.log = <<EvEval(Quote(expr))>>
    /\ sexpr_to_value(expr) = sexpr_to_value(Flattened(expr))

\* C19: (quote x) returns x as data and evaluates nothing: the only
\* evaluation is that of the quote form itself (no name in x is looked up),
\* the environment is the one the program started in, a symbol becomes a
\* Symbol value, a list a chain of pairs ending in Nil, a dotted list a
\* chain ending in its tail, and a dotted list whose tail is a list is the
\* same value as the list of all the elements.
C19_QuoteConverts ==
    QuoteDone =>
        /\ pc = "ok"
        /\ result = Converted(sexprs[1].list[2])
        /\ result = Converted(Flattened(sexprs[1].list[2]))
        /\ env \in OneStartEnvs
        /\ log = <<EvEval(sexprs[1])>>
        /\ (entry = "eval_program" /\ sexprs[1].list[2] = Sym(N_zz)) =>
              \A x \in QuoteArgs : QuoteOutcome(x, Probe(Quote(x)), env)

\* '(a . (b c)) has been evaluated to the list (a b c).
C19_Witness ==
    /\ QuoteDone
    /\ text = T_quote_dotted_list
    /\ result = list_to_cons(<<ValueSymbol(<<"a">>), ValueSymbol(<<"b">>),
                               ValueSymbol(<<"c">>)>>)

(***************************************************************************)
(* C20: rendering and reading again                                        *)
(***************************************************************************)

\* The rendering of the value reads as one expression, with nothing left
\* over, that stands for the same value and renders the same.
RoundTrips(value, p) ==
    /\ p.ok
    /\ p.rest = <<>>
    /\ Len(p.out) = 1
    /\ sexpr_to_value(p.out[1]) = value
    /\ Display(sexpr_to_value(p.out[1])) = Display(value)

\* Strings and a number written with a leading zero, alone and in lists.
RoundTripAtoms ==
    { AtomString(<<"s", " ", "(", ";">>),
      AtomString(<<>>),
      parse_number(<<"0", "1", "0">>).out }

RoundTripArgs ==
    QuoteArgs
      \cup {SexprAtom(a) : a \in RoundTripAtoms}
      \cup {SexprList(<<SexprAtom(a), Sym(N_zz)>>) : a \in RoundTripAtoms}
      \cup {SexprDottedList(<<Sym(N_zz)>>, SexprAtom(a)) : a \in RoundTripAtoms}

\* C20: the value of a quoted expression, rendered by Display and read
\* again, is one expression whose quoted value is the value rendered, and
\* rendering that value again gives the same text.
C20_RoundTrip ==
    (QuoteDone /\ pc = "ok") =>
        /\ RoundTrips(result, parse(Display(result)))
        /\ (entry = "eval_program" /\ sexprs[1].list[2] = Sym(N_zz)) =>
              \A x \in RoundTripArgs :
                  RoundTrips(sexpr_to_value(x),
                             parse(Display(sexpr_to_value(x))))

\* '(a (b . c) ()) has been evaluated: its rendering, (a (b . c) ()), has a
\* dotted pair and an empty list in it.
C20_Witness ==
    /\ QuoteDone
    /\ pc = "ok"
    /\ text = T_quote_nested
    /\ Display(result) = Tail(text)

\* The same for every expression of a typed program that leaves nothing
\* unread.
RoundTripTyped ==
    (pc # "input" /\ parse(text).rest = <<>>) =>
        \A j \in 1..Len(parse(text).out) :
            RoundTrips(sexpr_to_value(parse(text).out[j]),
                       parse(Display(sexpr_to_value(parse(text).out[j]))))

(***************************************************************************)
(* C21: the order of evaluation in a call                                  *)
(***************************************************************************)

SpecialForms == {QUOTE_SYMBOL, S_define, S_lambda, S_if}

\* A list that is not headed by the name of a special form.
IsCallForm(expr) ==
    /\ expr.sx = "List"
    /\ expr.list # <<>>
    /\ ~(expr.list[1].sx = "Atom" /\ expr.list[1].atom.at = "Symbol"
           /\ expr.list[1].atom.s \in SpecialForms)

\* The environment a program of one expression started in.
OneStartEnv ==
    IF entry = "transform_table"
    THEN Environment_define(create_global_env, N_table, TheTable)
    ELSE create_global_env

\* The expressions evaluated one after the other, each in the state the one
\* before it left, up to the first that fails.
RECURSIVE EvalInOrder(_, _, _)
EvalInOrder(steps, st, vals) ==
    IF steps = <<>> THEN Ret(Ok(vals), st)
    ELSE IF eval(steps[1], st).res.ok
         THEN EvalInOrder(Tail(steps), eval(steps[1], st).st,
                          Append(vals, eval(steps[1], st).res.val))
         ELSE eval(steps[1], st)

\* The function applied when head and arguments have their values.
ApplyAfter(vs) ==
    IF ~vs.res.ok THEN vs
    ELSE apply(vs.res.val[1], Tail(vs.res.val), vs.st)

\* Head first, then the arguments from the left, then the application.
CallInOrder(expr, st) ==
    ApplyAfter(EvalInOrder(expr.list, Note(st, EvEval(expr)), <<>>))

\* The program has ended as the evaluation r ends.
EndedAs(r) ==
    /\ env = r.st.env
    /\ log = r.st.log
    /\ IF r.res.ok
       THEN pc = "ok" /\ result = r.res.val
       ELSE pc = "err" /\ TheEvalError = r.res.err

\* The program is one call, evaluated.
CallDone ==
    /\ pc \in {"ok", "err"}
    /\ Len(sexprs) = 1
    /\ IsCallForm(sexprs[1])

\* Heads and arguments of the calls examined: values, a definition, an
\* unbound name, a failing call.
CallHeads ==
    { Sym(N_cons), Sym(N_zz), Num7, Define(N_p, Sym(N_car)),
      Lambda(<<N_x>>, <<Sym(N_x)>>) }

CallArgs ==
    { Num7, Sym(N_zz), Define(N_k, Num7), Form(Sym(N_car), <<Num0>>) }

CallForms ==
    UNION { {Form(h, a) : h \in CallHeads, a \in [1..n -> CallArgs]} :
            n \in 0..2 }

\* The first of head and arguments that fails, 0 when none does.
RECURSIVE FirstFailure(_, _, _)
FirstFailure(steps, st, j) ==
    IF steps = <<>> THEN 0
    ELSE IF eval(steps[1], st).res.ok
         THEN FirstFailure(Tail(steps), eval(steps[1], st).st, j + 1)
         ELSE j

\* What the claim says of one call: the error is that of the first failing
\* step, no step after it is in the log, and an error of the application
\* itself comes with every step evaluated.
InOrder(expr, r, failed) ==
    /\ r = CallInOrder(expr, St(env, <<>>, IdentityHash))
    /\ failed > 0 =>
          /\ ~r.res.ok
          /\ r.res = eval(expr.list[failed], r.st).res
          /\ \E e \in 1..Len(r.st.log) : r.st.log[e] = EvEval(expr.list[failed])
          /\ \A j \in (failed + 1)..Len(expr.list) :
                /\ \A e \in 1..Len(r.st.log) :
                      r.st.log[e] = EvEval(expr.list[j])
                          => \E i \in 1..failed : expr.list[i] = expr.list[j]
                /\ (expr.list[j] = Define(N_k, Num7)
                      /\ \A i \in 1..failed : expr.list[i] # expr.list[j])
                      => Environment_get(r.st.env, N_k) = <<>>
    /\ (~r.res.ok /\ r.res.err.e \in {"ArityError", "TypeError"}
          /\ failed = 0) =>
          \A j \in 1..Len(expr.list) :
              \E e \in 1..Len(r.st.log) : r.st.log[e] = EvEval(expr.list[j])
    /\ (expr.list[1] = Num7 /\ failed = 0) =>
          (~r.res.ok /\ r.res.err.e = "TypeError")

\* C21: a call evaluates its head, then its arguments from the left, then
\* applies the function; the first failing step gives the error and nothing
\* to its right is evaluated; ArityError and the TypeError of a non-function
\* come only after head and arguments have their values.
C21_CallOrder ==
    /\ CallDone =>
          \E h \in HashOrders :
              EndedAs(CallInOrder(sexprs[1], St(OneStartEnv, <<>>, h)))
    /\ (CallDone /\ entry = "eval_program" /\ text = T_call_arg_fails) =>
          \A c \in CallForms :
              InOrder(c, Probe(c),
                      FirstFailure(c.list, St(env, <<>>, IdentityHash), 1))

\* (7 (define k 1) zz) has failed on zz, with k defined, and not on 7.
C21_Witness ==
    /\ CallDone
    /\ text = T_call_late_failure
    /\ pc = "err"
    /\ TheEvalError = UndefinedVariable(N_zz)
    /\ Environment_get(env, N_k) = <<ValueNumber(<<"1">>)>>

(***************************************************************************)
(* C22: argument counts                                                    *)
(***************************************************************************)

\* The counts the special forms and the builtins take, as the text of
\* ArityError's expected field.
SpecialArity ==
    { [name |-> QUOTE_SYMBOL, expected |-> "1", counts |-> {1}],
      [name |-> S_define, expected |-> "2", counts |-> {2}],
      [name |-> S_lambda, expected |-> "at least 2", counts |-> {2, 3}],
      [name |-> S_if, expected |-> "3", counts |-> {3}] }

BuiltinArity ==
    { [name |-> N_cons, expected |-> "2", counts |-> {2}],
      [name |-> N_equal, expected |-> "2", counts |-> {2}],
      [name |-> N_assoc, expected |-> "2", counts |-> {2}],
      [name |-> N_group_by, expected |-> "2", counts |-> {2}],
      [name |-> N_car, expected |-> "1", counts |-> {1}],
      [name |-> N_cdr, expected |-> "1", counts |-> {1}],
      [name |-> N_null, expected |-> "1", counts |-> {1}] }

\* Operands that leave a trace when evaluated: a definition of k.
Operands(n) == [j \in 1..n |-> Define(N_k, Num7)]

Numbers(n) == [j \in 1..n |-> Num7]

\* Only the form itself was evaluated, and the environment is the one
\* before.
NothingEvaluated(expr, r, before) ==
    /\ r.st.env = before
    /\ r.st.log = <<EvEval(expr)>>

SpecialFormCounted(a, n, expr, r) ==
    IF n \notin a.counts
    THEN /\ r.res = Err(ArityError(a.expected, n))
         /\ NothingEvaluated(expr, r, env)
    ELSE (a.name \in {S_define, S_lambda}) =>
            /\ ~r.res.ok
            /\ r.res.err.e = "TypeError"
            /\ NothingEvaluated(expr, r, env)

BuiltinCounted(a, n, r) ==
    n \notin a.counts => r.res = Err(ArityError(a.expected, n))

\* The program is the one list headed by the name.
IsHeadedBy(name) ==
    /\ pc \in {"ok", "err"}
    /\ Len(sexprs) = 1
    /\ sexprs[1].sx = "List"
    /\ sexprs[1].list # <<>>
    /\ sexprs[1].list[1] = Sym(name)

\* C22: a special form or builtin given a wrong number of arguments fails
\* with ArityError, got being the number given; a special form makes this
\* check, and the check of define's target and of lambda's parameter list,
\* before it evaluates an operand: nothing but the form is evaluated and the
\* environment stays as it was.
C22_ArityErrors ==
    /\ \A a \in SpecialArity :
          (IsHeadedBy(a.name) /\ Len(sexprs[1].list) - 1 \notin a.counts) =>
              /\ pc = "err"
              /\ TheEvalError = ArityError(a.expected, Len(sexprs[1].list) - 1)
              /\ env = OneStartEnv
              /\ log = <<EvEval(sexprs[1])>>
    /\ (IsHeadedBy(S_define) /\ Len(sexprs[1].list) = 3
           /\ ~(sexprs[1].list[2].sx = "Atom"
                  /\ sexprs[1].list[2].atom.at = "Symbol")) =>
          /\ pc = "err"
          /\ TheEvalError.e = "TypeError"
          /\ env = OneStartEnv
          /\ log = <<EvEval(sexprs[1])>>
    /\ \A a \in BuiltinArity :
          (IsHeadedBy(a.name) /\ Len(sexprs[1].list) - 1 \notin a.counts
             /\ FirstFailure(sexprs[1].list,
                             St(OneStartEnv, <<>>, IdentityHash), 1) = 0) =>
              /\ pc = "err"
              /\ TheEvalError = ArityError(a.expected, Len(sexprs[1].list) - 1)
    /\ (IsHeadedBy(S_if) /\ entry = "eval_program") =>
          /\ \A a \in SpecialArity : \A n \in 0..3 :
                SpecialFormCounted(a, n, Form(Sym(a.name), Operands(n)),
                                   Probe(Form(Sym(a.name), Operands(n))))
          /\ \A a \in BuiltinArity : \A n \in 0..3 :
                BuiltinCounted(a, n, Probe(Form(Sym(a.name), Numbers(n))))

\* (if (define k 1)) has failed with ArityError{expected 3, got 1} and k is
\* not defined.
C22_Witness ==
    /\ IsHeadedBy(S_if)
    /\ text = T_if_arity
    /\ TheEvalError = ArityError("3", 1)
    /\ Environment_get(env, N_k) = <<>>

(***************************************************************************)
(* Environment::set (klisp/src/evaluator/value.rs), and a host that        *)
(* builds frames and calls it                                              *)
(***************************************************************************)
\* Ancestor frames of the frame the host works on.
MaxDepth == 2

RECURSIVE Environment_set_chain(_, _, _)
\* A set that goes up to the nearest frame that binds the name.
\* C23_SetCurrentFrameOnly fails for it.
Environment_set_chain(e, name, value) ==
    IF name \in DOMAIN e.bindings
    THEN [env |-> [e EXCEPT !.bindings = (name :> value) @@ @],
          res |-> Ok(<<>>)]
    ELSE IF e.parent # <<>>
         THEN [env |-> [e EXCEPT !.parent =
                          <<Environment_set_chain(e.parent[1], name, value).env>>],
               res |-> Environment_set_chain(e.parent[1], name, value).res]
         ELSE [env |-> e, res |-> Err(UndefinedVariable(name))]

\* self after the call, and the Result returned.
Environment_set(e, name, value) ==
    IF name \in DOMAIN e.bindings
    THEN [env |-> [e EXCEPT !.bindings = (name :> value) @@ @],
          res |-> Ok(<<>>)]
    ELSE IF e.parent # <<>>
         THEN [env |-> e, res |-> Err(UndefinedVariable(name))]
         ELSE [env |-> e, res |-> Err(UndefinedVariable(name))]

RECURSIVE Environment_depth(_)
Environment_depth(e) ==
    IF e.parent = <<>> THEN 0 ELSE 1 + Environment_depth(e.parent[1])

HostNames == {N_x, N_k}

HostValues == {ValueNumber(<<"1">>), ValueNumber(<<"2">>)}

\* The call made last: its name, its arguments and self before it.
Called(op, name, value) ==
    <<[ev |-> op, name |-> name, val |-> value, before |-> env]>>

\* Environment::with_parent(Rc::new(env))
HostWithParent ==
    /\ pc = "input"
    /\ text = <<>>
    /\ Environment_depth(env) < MaxDepth
    /\ env' = Environment_with_parent(env)
    /\ entry' = "with_parent"
    /\ log' = Called("with_parent", <<>>, ValueNil)
    /\ error' = <<>>
    /\ UNCHANGED <<text, nexpr, pc, sexprs, idx, result>>

\* env.define(name, value)
HostDefine(name, value) ==
    /\ pc = "input"
    /\ text = <<>>
    /\ env' = Environment_define(env, name, value)
    /\ entry' = "define"
    /\ log' = Called("define", name, value)
    /\ error' = <<>>
    /\ UNCHANGED <<text, nexpr, pc, sexprs, idx, result>>

\* env.set(name, value)
HostSet(name, value) ==
    /\ pc = "input"
    /\ text = <<>>
    /\ env' = Environment_set(env, name, value).env
    /\ error' = IF Environment_set(env, name, value).res.ok THEN <<>>
                ELSE <<Environment_set(env, name, value).res.err>>
    /\ entry' = "set"
    /\ log' = Called("set", name, value)
    /\ UNCHANGED <<text, nexpr, pc, sexprs, idx, result>>

NextEnv ==
    \/ HostWithParent
    \/ \E n \in HostNames, v \in HostValues : HostDefine(n, v)
    \/ \E n \in HostNames, v \in HostValues : HostSet(n, v)

SpecEnv == Init /\ [][NextEnv]_vars

(***************************************************************************)
(* C23                                                                     *)
(***************************************************************************)

\* The frame with the name bound to the value and all else as it was.
Rebound(e, name, value) ==
    /\ DOMAIN e.bindings = DOMAIN env.bindings
    /\ \A n \in DOMAIN e.bindings :
          env.bindings[n] = IF n = name THEN value ELSE e.bindings[n]
    /\ env.parent = e.parent

RECURSIVE Reverse(_)
Reverse(seq) ==
    IF seq = <<>> THEN <<>> ELSE Reverse(Tail(seq)) \o <<seq[1]>>

\* The tail, then the head elements from the last to the first.
DottedSteps(expr) == <<expr.tail>> \o Reverse(expr.list)

\* Cons(v1, Cons(v2, ... Cons(vn, vt))) from <<vt, vn, ..., v1>>.
RECURSIVE ConsUp(_, _)
ConsUp(vals, acc) ==
    IF vals = <<>> THEN acc ELSE ConsUp(Tail(vals), ValueCons(vals[1], acc))

ConsAfter(vs) ==
    IF ~vs.res.ok THEN vs
    ELSE Ret(Ok(ConsUp(Tail(vs.res.val), vs.res.val[1])), vs.st)

DottedInOrder(expr, st) ==
    ConsAfter(EvalInOrder(DottedSteps(expr), Note(st, EvEval(expr)), <<>>))

\* The program is one dotted list with a head, evaluated.
DottedDone ==
    /\ pc \in {"ok", "err"}
    /\ Len(sexprs) = 1
    /\ sexprs[1].sx = "DottedList"
    /\ sexprs[1].list # <<>>

DottedParts == {Num7, Sym(N_zz), Define(N_k, Num7), Sym(N_k), Sym(N_car)}

DottedForms ==
    UNION { {SexprDottedList(l, t) : l \in [1..n -> DottedParts],
                                     t \in DottedParts} :
            n \in 1..2 }

\* What the claim says of one dotted list: failed is the first step that
\* fails in the order tail, hn, ..., h1 (0 when none does).
DottedOutcome(expr, steps, r, failed) ==
    /\ r = DottedInOrder(expr, St(env, <<>>, IdentityHash))
    /\ \A e \in 1..Len(r.st.log) : r.st.log[e].ev # "frame"
    /\ failed = 0 =>
          /\ r.res.ok
          /\ Spine(r.res.val) =
                [j \in 1..Len(expr.list) |->
                    eval(expr.list[j], r.st).res.val]
          /\ LastCdr(r.res.val) = eval(expr.tail, r.st).res.val
    /\ failed > 0 =>
          /\ r.res = eval(steps[failed], r.st).res
          /\ ~r.res.ok
          /\ Len(r.st.log) <= 1 + 2 * failed
          /\ (\A i \in 1..failed : steps[i] # Define(N_k, Num7))
                => Environment_get(r.st.env, N_k) = Environment_get(env, N_k)

\* C24: a dotted list outside quote evaluates its tail, then its head
\* elements from the last to the first, and returns the chain of pairs of
\* their values ending in the tail's value; no function is applied; the
\* first failing step in that order gives the error and no element to its
\* left is evaluated.
C24_DottedOrder ==
    /\ DottedDone =>
          EndedAs(DottedInOrder(sexprs[1], St(OneStartEnv, <<>>, IdentityHash)))
    /\ (DottedDone /\ entry = "eval_program"
           /\ text = T_dotted_tail_fails) =>
          \A d \in DottedForms :
              DottedOutcome(d, DottedSteps(d), Probe(d),
                            FirstFailure(DottedSteps(d),
                                         St(env, <<>>, IdentityHash), 1))

\* (k (define k 1) . 7) has given (1 1 . 7): the definition to the right
\* was evaluated before the name to its left.
C24_Witness ==
    /\ DottedDone
    /\ text = T_dotted_right_first
    /\ pc = "ok"
    /\ result = ValueCons(ValueNumber(<<"1">>),
                          ValueCons(ValueNumber(<<"1">>), ValueNumber(<<"7">>)))

(***************************************************************************)
(* Programs typed token by token                                           *)
(***************************************************************************)
\* Tokens in a typed program.
MaxTokens == 3

K_i64_max ==
    <<"9", "2", "2", "3", "3", "7", "2", "0", "3", "6", "8", "5", "4", "7",
    "7", "5", "8", "0", "7">>
K_i64_over ==
    <<"9", "2", "2", "3", "3", "7", "2", "0", "3", "6", "8", "5", "4", "7",
    "7", "5", "8", "0", "8">>
K_list ==
    <<"l", "i", "s", "t">>
K_vector ==
    <<"v", "e", "c", "t", "o", "r">>
K_arrow ==
    <<"-", ">">>

Tokens ==
    {K_i64_max, K_i64_over, K_list, K_vector, K_arrow, <<"0">>, <<"5">>,
     <<"a">>, <<"-">>, <<"!">>, <<"?">>, <<" ">>, <<"(">>, <<")">>}

\* The caller types one more token of the program.
TypeToken(tok) ==
    /\ pc = "input"
    /\ nexpr < MaxTokens
    /\ text' = text \o tok
    /\ nexpr' = nexpr + 1
    /\ UNCHANGED <<pc, entry, sexprs, idx, env, result, error, log>>

NextTok ==
    \/ \E tok \in Tokens : TypeToken(tok)
    \/ transform_table(ValueNil)
    \/ eval_program
    \/ Step

SpecTok == Init /\ [][NextTok]_vars

(***************************************************************************)
(* C25: numbers                                                            *)
(***************************************************************************)

\* parse has read the text: eval_program keeps the expressions,
\* transform_table reports a remainder.
ParsedAs(out, rest) ==
    /\ pc # "input"
    /\ IF entry = "transform_table" /\ rest # <<>>
       THEN /\ pc = "err"
            /\ error = <<ParseError(<<"Unparsed input: ", rest>>)>>
            /\ sexprs = <<>>
       ELSE /\ sexprs = out
            /\ \A j \in 1..Len(error) : error[j].e # "ParseError"

\* The number of characters of `input` before its first character outside S.
Run(input, S) ==
    CHOOSE n \in 0..Len(input) :
        /\ \A j \in 1..n : input[j] \in S
        /\ n < Len(input) => input[n + 1] \notin S

\* The decimal numeral of the value of a digit run.
Numeral(ds) ==
    LET z == Run(ds, {"0"})
    IN  IF z = Len(ds) THEN <<"0">> ELSE SubSeq(ds, z + 1, Len(ds))

RECURSIVE NumeralLeq(_, _)
\* a <= b for two numerals of one length.
NumeralLeq(a, b) ==
    \/ a = <<>>
    \/ DigitVal(a[1]) < DigitVal(b[1])
    \/ a[1] = b[1] /\ NumeralLeq(Tail(a), Tail(b))

\* The value of the digit run is at most 2^63 - 1.
FitsI64(ds) ==
    LET n == Numeral(ds)
    IN  \/ Len(n) < Len(K_i64_max)
        \/ Len(n) = Len(K_i64_max) /\ NumeralLeq(n, K_i64_max)

\* The text is spaces and then a token that starts with a digit.
NumberFirst(u) == u # <<>> /\ u[1] \in Digit

\* What the claim says of a text whose first token starts with the digit
\* run u[1..n].
NumberRead(u, n, after) ==
    IF FitsI64(Take(u, n))
    THEN ParsedAs(<<Num(Numeral(Take(u, n)))>> \o after.out, after.rest)
    ELSE ParsedAs(<<>>, text)

\* The same inside a list: ( digits ).
NumberInList(u, n) ==
    IF FitsI64(Take(u, n))
    THEN ParsedAs(<<SexprList(<<Num(Numeral(Take(u, n)))>>)>>, <<>>)
    ELSE ParsedAs(<<>>, text)

\* C25: a token that starts with decimal digits is read as the Number of its
\* maximal digit run when that value is at most 2^63 - 1; a digit run of a
\* greater value is read as no atom, parse stops before it and leaves it in
\* the remainder.
C25_NumberTokens ==
    pc # "input" =>
        LET u == Drop(text, Run(text, {" "}))
        IN  /\ NumberFirst(u) =>
                  NumberRead(u, Run(u, Digit), parse(Drop(u, Run(u, Digit))))
            /\ (/\ starts_with(u, "(")
                /\ NumberFirst(Tail(u))
                /\ Drop(Tail(u), Run(Tail(u), Digit)) = <<")">>) =>
                  NumberInList(Tail(u), Run(Tail(u), Digit))

\* 9223372036854775807 has been read and 9223372036854775808 after it has
\* been left in the remainder.
C25_Witness ==
    /\ text = K_i64_max \o <<" ">> \o K_i64_over
    /\ entry = "transform_table"
    /\ error = <<ParseError(<<"Unparsed input: ", <<" ">> \o K_i64_over>>)>>

(***************************************************************************)
(* C26: symbols                                                            *)
(***************************************************************************)

\* The characters a symbol starts with and goes on with.
StartsSymbol == Alpha \cup {"+", "-", "*", "/", ">", "<", "=", "?"}

ContinuesSymbol == Alpha \cup Digit \cup {"-", "?", "!"}

\* What the claim says of a text whose first token is the symbol u[1..n].
SymbolRead(u, n, after) ==
    ParsedAs(<<Sym(Take(u, n))>> \o after.out, after.rest)

\* C26: a symbol is the longest prefix that starts with a letter or one of
\* + - * / > < = ? and continues with letters, digits, '-', '?' or '!'; so
\* list->vector is the two symbols list- and >vector, and -5 is one symbol,
\* not a negative number.
C26_SymbolTokens ==
    pc # "input" =>
        LET u == Drop(text, Run(text, {" "}))
        IN  /\ (u # <<>> /\ u[1] \in StartsSymbol) =>
                  SymbolRead(u, 1 + Run(Tail(u), ContinuesSymbol),
                             parse(Drop(u, 1 + Run(Tail(u), ContinuesSymbol))))
            /\ u = K_list \o K_arrow \o K_vector =>
                  ParsedAs(<<Sym(K_list \o <<"-">>), Sym(<<">">> \o K_vector)>>,
                           <<>>)
            /\ u = <<"-", "5">> => ParsedAs(<<Sym(<<"-", "5">>)>>, <<>>)

\* list->vector has been read as list- and >vector.
C26_Witness ==
    /\ text = K_list \o K_arrow \o K_vector
    /\ pc # "input"
    /\ sexprs = <<Sym(K_list \o <<"-">>), Sym(<<">">> \o K_vector)>>

(***************************************************************************)
(* C27: a lambda calling itself by its defined name                        *)
(***************************************************************************)

\* (cons (define g (lambda (p) g)) (g 1)) has been evaluated: g is defined,
\* then called, and its body looks g up.
SelfCallDone ==
    /\ pc \in {"ok", "err"}
    /\ text = T_self_call

\* The value define gave to g.
TheLambda == Environment_get(env, N_g)

\* C27: after (define g (lambda (p) body)) a lookup of g made inside body
\* during a call of g succeeds and yields that lambda; it does not yield
\* UndefinedVariable(g).
C27_SelfReference ==
    SelfCallDone =>
        /\ pc = "ok"
        /\ TheLambda # <<>>
        /\ result = ValueCons(TheLambda[1], TheLambda[1])

\* What the evaluator does: g is bound to the lambda in the frame of the
\* define, the lambda's closure is the frame as it was before, and the
\* lookup inside the body fails.
SelfCallFails ==
    SelfCallDone =>
        /\ pc = "err"
        /\ TheEvalError = UndefinedVariable(N_g)
        /\ TheLambda # <<>>
        /\ TheLambda[1].v = "Lambda"
        /\ Environment_get(TheLambda[1].closure, N_g) = <<>>

(***************************************************************************)
(* C28: special forms are recognised by their spelling                     *)
(***************************************************************************)

Num1 == Num(<<"1">>)

Num2 == Num(<<"2">>)

\* One list headed by each of quote, define, lambda and if.
SpecialProbes ==
    {Form(Sym(QUOTE_SYMBOL), <<Sym(N_q)>>), Define(N_k, Num7),
     Lambda(<<N_x>>, <<Sym(N_x)>>), If(Num7, Num1, Num2),
     If(Sym(N_zz), Num1, Num2)}

\* What the special-form rule gives for each of them.
ByTheRule(form, r) ==
    /\ \A e \in 1..Len(r.st.log) : r.st.log[e].ev # "frame"
    /\ IF form = Form(Sym(QUOTE_SYMBOL), <<Sym(N_q)>>)
       THEN r.res = Ok(ValueSymbol(N_q))
       ELSE IF form = Define(N_k, Num7)
       THEN /\ r.res = Ok(ValueNumber(<<"7">>))
            /\ Environment_get(r.st.env, N_k) = <<ValueNumber(<<"7">>)>>
       ELSE IF form = Lambda(<<N_x>>, <<Sym(N_x)>>)
       THEN /\ r.res.ok
            /\ r.res.val.v = "Lambda"
            /\ r.res.val.params = <<N_x>>
            /\ r.res.val.body = <<Sym(N_x)>>
       ELSE IF form = If(Num7, Num1, Num2)
       THEN r.res = Ok(ValueNumber(<<"1">>))
       ELSE r.res = Err(UndefinedVariable(N_zz))

\* What a user may bind to the names of the special forms.
Rebindings == {Sym(N_car), Num7, Lambda(<<N_p>>, <<Sym(N_zz)>>)}

\* The same form as the body of a lambda whose parameter is `name`, called
\* with the value of `value`.
AsParameter(name, value, form) == Form(Lambda(<<name>>, <<form>>), <<value>>)

\* What the call of that lambda gives: the body's frame is dropped.
ByTheRuleInside(form, r) ==
    IF form = Form(Sym(QUOTE_SYMBOL), <<Sym(N_q)>>)
    THEN r.res = Ok(ValueSymbol(N_q))
    ELSE IF form = Define(N_k, Num7)
    THEN r.res = Ok(ValueNumber(<<"7">>))
    ELSE IF form = Lambda(<<N_x>>, <<Sym(N_x)>>)
    THEN r.res.ok /\ r.res.val.v = "Lambda" /\ r.res.val.params = <<N_x>>
    ELSE IF form = If(Num7, Num1, Num2)
    THEN r.res = Ok(ValueNumber(<<"1">>))
    ELSE r.res = Err(UndefinedVariable(N_zz))

\* A program that rebinds the name of a special form has been evaluated.
ReboundDone ==
    /\ pc \in {"ok", "err"}
    /\ text \in {T_if_rebound, T_quote_param, T_define_rebound,
                 T_lambda_rebound}

\* C28: a list headed by the symbol quote, define, lambda or if is evaluated
\* by the special-form rule whatever the environment binds to that name:
\* after (define if ...), (define quote ...), (define define ...) and
\* (define lambda ...), and inside a lambda with a parameter of that name.
C28_SpecialFormsBySpelling ==
    /\ (ReboundDone /\ text = T_if_rebound) =>
          /\ pc = "ok"
          /\ result = ValueCons(ValuePrimitive("builtin_car"),
                                ValueNumber(<<"2">>))
    /\ (ReboundDone /\ text = T_quote_param) =>
          pc = "ok" /\ result = ValueSymbol(N_k)
    /\ (ReboundDone /\ text = T_define_rebound) =>
          /\ pc = "ok"
          /\ result = ValueCons(ValueNumber(<<"7">>), ValueNumber(<<"1">>))
          /\ Environment_get(env, N_k) = <<ValueNumber(<<"1">>)>>
    /\ (ReboundDone /\ text = T_lambda_rebound) =>
          /\ pc = "ok"
          /\ result = ValueCons(ValuePrimitive("builtin_car"),
                                ValueNumber(<<"1">>))
    /\ (ReboundDone /\ entry = "eval_program") =>
          \A name \in SpecialForms, value \in Rebindings :
              LET bound == Probe(Define(name, value))
              IN  /\ bound.res.ok
                  /\ Environment_get(bound.st.env, name) = <<bound.res.val>>
                  /\ \A form \in SpecialProbes :
                        /\ ByTheRule(form,
                              eval(form, St(bound.st.env, <<>>, IdentityHash)))
                        /\ ByTheRuleInside(form,
                              Probe(AsParameter(name, value, form)))

\* (cons (define if car) (if 1 2 3)) has given (car . 2): with if bound to
\* car, (if 1 2 3) was still the conditional.
C28_Witness ==
    /\ ReboundDone
    /\ text = T_if_rebound
    /\ Environment_get(env, S_if) = <<ValuePrimitive("builtin_car")>>
    /\ result = ValueCons(ValuePrimitive("builtin_car"), ValueNumber(<<"2">>))

(***************************************************************************)
(* The REPL (klisp/src/bin/klisp.rs)                                       *)
(***************************************************************************)
\* Lines read by the REPL.
MaxLines == 3

\* (define x 1) (car 5) (define k 2)
L_define_fail ==
    <<"(", "d", "e", "f", "i", "n", "e", " ", "x", " ", "1", ")", " ", "(",
    "c", "a", "r", " ", "5", ")", " ", "(", "d", "e", "f", "i", "n", "e",
    " ", "k", " ", "2", ")">>

\* (cons (define x 1) (car 5))
L_cons_fail ==
    <<"(", "c", "o", "n", "s", " ", "(", "d", "e", "f", "i", "n", "e", " ",
    "x", " ", "1", ")", " ", "(", "c", "a", "r", " ", "5", ")", ")">>

\* (define x 2) x
L_define_x_2 ==
    <<"(", "d", "e", "f", "i", "n", "e", " ", "x", " ", "2", ")", " ", "x">>

ReplLines ==
    {L_define_fail, L_cons_fail, L_define_x_2, <<"x">>, <<"k">>, <<" ">>,
     <<")">>}

\* line.trim().is_empty(), for lines of ASCII characters.
trim_is_empty(line) == \A j \in 1..Len(line) : line[j] \in Multispace

\* What the REPL writes and reads, kept in the log: the line read with the
\* environment it found, a line on stdout, a line on stderr.
Readline(line, e) == [ev |-> "readline", line |-> line, before |-> e]

Println(out) == [ev |-> "println", out |-> out]

\* eprintln!("Evaluation error: {:?}", e)
Eprintln(err) == [ev |-> "eprintln", err |-> err]

\* main up to its loop.
ReplStart ==
    /\ pc = "input"
    /\ entry = "none"
    /\ entry' = "repl"
    /\ env' = create_global_env
    /\ pc' = "prompt"
    /\ UNCHANGED <<text, nexpr, sexprs, idx, result, error, log>>

\* rl.readline gives a line: an empty one is skipped, any other is parsed;
\* the remainder of the parse is dropped.
ReadLine(line) ==
    /\ pc = "prompt"
    /\ nexpr < MaxLines
    /\ text' = line
    /\ nexpr' = nexpr + 1
    /\ IF trim_is_empty(line)
       THEN UNCHANGED <<pc, sexprs, idx, result, error, log>>
       ELSE IF ~parse(line).ok
       THEN /\ log' = log \o <<Readline(line, env),
                               Eprintln(ParseError(<<"Many0">>))>>
            /\ error' = <<ParseError(<<"Many0">>)>>
            /\ UNCHANGED <<pc, sexprs, idx, result>>
       ELSE /\ sexprs' = parse(line).out
            /\ result' = ValueNil
            /\ idx' = 1
            /\ error' = <<>>
            /\ log' = Append(log, Readline(line, env))
            /\ pc' = IF parse(line).out = <<>> THEN "prompt" ELSE "repl_loop"
    /\ UNCHANGED <<entry, env>>

\* The loop with the environment of the line's start put back when an
\* expression fails.  C29_NotTransactional fails for it.
ReplStep_rollback ==
    /\ pc = "repl_loop"
    /\ \E h \in HashChoices(sexprs[idx], env, log) :
         LET r == eval(sexprs[idx], St(env, log, h))
         IN  IF r.res.ok
             THEN /\ env' = r.st.env
                  /\ result' = r.res.val
                  /\ idx' = idx + 1
                  /\ error' = error
                  /\ IF idx = Len(sexprs)
                     THEN /\ pc' = "prompt"
                          /\ log' = Append(r.st.log,
                                           Println(Display(r.res.val)))
                     ELSE /\ pc' = "repl_loop"
                          /\ log' = r.st.log
             ELSE /\ env' = log[CHOOSE e \in 1..Len(log) :
                                  /\ log[e].ev = "readline"
                                  /\ \A f \in (e + 1)..Len(log) :
                                        log[f].ev # "readline"].before
                  /\ pc' = "prompt"
                  /\ error' = <<[e |-> "Evaluation error",
                                 cause |-> r.res.err]>>
                  /\ log' = r.st.log \o
                               <<Eprintln(r.res.err), Println(Display(result))>>
                  /\ UNCHANGED <<result, idx>>
    /\ UNCHANGED <<text, nexpr, entry, sexprs>>

\* One turn of the for loop over the expressions of the line; after the
\* last one, or after the first error, the result so far is printed.
ReplStep ==
    /\ pc = "repl_loop"
    /\ \E h \in HashChoices(sexprs[idx], env, log) :
         LET r == eval(sexprs[idx], St(env, log, h))
         IN  /\ env' = r.st.env
             /\ IF r.res.ok
                THEN /\ result' = r.res.val
                     /\ idx' = idx + 1
                     /\ error' = error
                     /\ IF idx = Len(sexprs)
                        THEN /\ pc' = "prompt"
                             /\ log' = Append(r.st.log,
                                              Println(Display(r.res.val)))
                        ELSE /\ pc' = "repl_loop"
                             /\ log' = r.st.log
                ELSE /\ pc' = "prompt"
                     /\ error' = <<[e |-> "Evaluation error",
                                    cause |-> r.res.err]>>
                     /\ log' = r.st.log \o
                                  <<Eprintln(r.res.err), Println(Display(result))>>
                     /\ UNCHANGED <<result, idx>>
    /\ UNCHANGED <<text, nexpr, entry, sexprs>>

\* Ctrl+C, Ctrl+D or a read error: the loop is left.
ReplExit ==
    /\ pc = "prompt"
    /\ pc' = "exit"
    /\ UNCHANGED <<text, nexpr, entry, sexprs, idx, env, result, error, log>>

NextRepl ==
    \/ ReplStart
    \/ \E line \in ReplLines : ReadLine(line)
    \/ ReplStep
    \/ ReplExit

SpecRepl == Init /\ [][NextRepl]_vars

(***************************************************************************)
(* C29: an error takes no definition back                                  *)
(***************************************************************************)

\* The last line read and the environment it found.
LastRead ==
    log[CHOOSE e \in 1..Len(log) :
            /\ log[e].ev = "readline"
            /\ \A f \in (e + 1)..Len(log) : log[f].ev # "readline"]

\* The REPL is back at its prompt after an expression of the line failed.
LineFailed ==
    /\ entry = "repl"
    /\ pc = "prompt"
    /\ error # <<>>
    /\ error[1].e = "Evaluation error"

\* The state the failing expression of the line started in.
BeforeFailing ==
    EvalInOrder(Take(sexprs, idx - 1),
                St(LastRead.before, <<>>, IdentityHash), <<>>).st

\* The steps that completed before the failure: the expressions of the line
\* before the failing one, then the head and the arguments of the failing
\* call to the left of the one that failed.
CompletedOf(expr, failed) ==
    IF ~IsCallForm(expr) THEN <<>>
    ELSE IF failed = 0 THEN expr.list
    ELSE Take(expr.list, failed - 1)

Completed ==
    Take(sexprs, idx - 1) \o
    CompletedOf(sexprs[idx],
                IF IsCallForm(sexprs[idx])
                THEN FirstFailure(sexprs[idx].list, BeforeFailing, 1)
                ELSE 0)

\* (define name <number>)
IsNumberDefine(step, name) ==
    /\ IsDefine(step)
    /\ step.list[2].atom.s = name
    /\ step.list[3].sx = "Atom"
    /\ step.list[3].atom.at = "Number"

\* The name has the value of the last completed definition of it, and the
\* value it had before the line when there is none.
StaysInEffect(done, name) ==
    LET defs == {i \in 1..Len(done) : IsNumberDefine(done[i], name)}
    IN  IF defs = {}
        THEN Environment_get(env, name) =
                 Environment_get(LastRead.before, name)
        ELSE Environment_get(env, name) =
                 <<ValueNumber(
                     done[CHOOSE i \in defs : \A j \in defs : j <= i]
                         .list[3].atom.n)>>

\* C29: eval is not transactional.  When an expression fails, the defines
\* that completed in the caller's frame before the failing sub-expression
\* stay in effect, as x = 1 after (cons (define x 1) (car 5)); in the REPL
\* the bindings made by the expressions of a line before the failing one
\* remain, and the next line is read in the environment the failed line
\* left.
C29_NotTransactional ==
    /\ LineFailed =>
          /\ StaysInEffect(Completed, N_x)
          /\ StaysInEffect(Completed, N_k)
    /\ (LineFailed /\ LastRead.line \in {L_cons_fail, L_define_fail}) =>
          /\ Environment_get(env, N_x) = <<ValueNumber(<<"1">>)>>
          /\ Environment_get(env, N_k) = Environment_get(LastRead.before, N_k)
    /\ entry = "repl" =>
          \A e \in 1..Len(log), f \in 1..Len(log) :
              (/\ e < f
               /\ log[e].ev = "readline"
               /\ log[f].ev = "readline"
               /\ \A g \in (e + 1)..(f - 1) : log[g].ev # "readline"
               /\ log[e].line \in {L_cons_fail, L_define_fail})
                  => /\ Environment_get(log[f].before, N_x) =
                            <<ValueNumber(<<"1">>)>>
                     /\ Environment_get(log[f].before, N_k) =
                            Environment_get(log[e].before, N_k)

\* After (define x 1) (car 5) (define k 2) failed, the line x has printed 1.
C29_Witness ==
    /\ entry = "repl"
    /\ pc = "prompt"
    /\ nexpr = 2
    /\ text = <<"x">>
    /\ log[1] = Readline(L_define_fail, create_global_env)
    /\ \E e \in 1..Len(log) :
          log[e] = Eprintln(TypeError(<<"car requires a cons cell">>))
    /\ log[Len(log)] = Println(<<"1">>)
    /\ Environment_get(env, N_k) = <<>>

(***************************************************************************)
(* C30: the keys of group-by                                               *)
(***************************************************************************)

\* The kinds of value that have a text, and the text.
TextKinds == {"Number", "String", "Symbol"}

TextOf(value) == IF value.v = "Number" THEN value.n ELSE value.s

\* What the key function gives the row.
KeyOf(func, row) ==
    apply_function(func, <<row>>, St(env, <<>>, IdentityHash)).res

\* The first row at which the call stops: the function fails on it or its
\* key has no text.  0 when there is none.
FirstStop(func, rows) ==
    LET stops == {j \in 1..Len(rows) :
                     \/ ~KeyOf(func, rows[j]).ok
                     \/ KeyOf(func, rows[j]).val.v \notin TextKinds}
    IN  IF stops = {} THEN 0
        ELSE CHOOSE j \in stops : \A i \in stops : j <= i

\* The rows whose key has the text, in the order of the table.
RowsWithText(func, rows, key) ==
    LET HasText(row) == TextOf(KeyOf(func, row).val) = key
    IN  SelectSeq(rows, HasText)

\* The frames opened for calls of the key function.
Frames(events) ==
    Cardinality({e \in 1..Len(events) : events[e].ev = "frame"})

\* What the claim says of (group-by rows func) ending as r, first being the
\* first row at which it stops.
GroupByOutcome(func, rows, r, first) ==
    /\ first = 0 =>
          /\ r.res.ok
          /\ LastCdr(r.res.val) = ValueNil
          /\ \A g \in 1..Len(Spine(r.res.val)) :
                /\ Spine(r.res.val)[g].v = "Cons"
                /\ Spine(r.res.val)[g].car.v = "String"
                /\ Spine(Spine(r.res.val)[g].cdr) =
                       RowsWithText(func, rows, Spine(r.res.val)[g].car.s)
                /\ Spine(r.res.val)[g].cdr # ValueNil
          /\ \A j \in 1..Len(rows) :
                \E g \in 1..Len(Spine(r.res.val)) :
                    Spine(r.res.val)[g].car =
                        ValueString(TextOf(KeyOf(func, rows[j]).val))
          /\ \A g, h \in 1..Len(Spine(r.res.val)) :
                Spine(r.res.val)[g].car = Spine(r.res.val)[h].car => g = h
          /\ rows = <<>> => r.res.val = ValueNil
    /\ first > 0 =>
          /\ ~r.res.ok
          /\ r.res.err =
                IF ~KeyOf(func, rows[first]).ok
                THEN KeyOf(func, rows[first]).err
                ELSE TypeError(<<"group-by key must be string, symbol, or number">>)
    /\ Frames(r.st.log) =
          IF func.v # "Lambda" \/ Len(func.params) # 1 THEN 0
          ELSE IF first = 0 THEN Len(rows) ELSE first

\* (group-by table f) has been evaluated on a table that is a proper list.
GroupByDone ==
    /\ pc \in {"ok", "err"}
    /\ entry = "transform_table"
    /\ IsCallOf(N_group_by)
    /\ sexprs[1].list[2] = Sym(N_table)
    /\ LastCdr(TheTable) = ValueNil

\* How the program ended.
Ended ==
    Ret(IF pc = "ok" THEN Ok(result) ELSE Err(TheEvalError),
        St(env, log, IdentityHash))

\* Rows ("a" . key) for keys of every kind, three of them with the text 1.
KindRows ==
    {ValueCons(ValueString(<<"a">>), key) :
        key \in {ValueNumber(<<"1">>), ValueString(<<"1">>),
                 ValueSymbol(<<"1">>), ValueString(<<"2">>), ValueNil,
                 ValueBool(TRUE), ValuePrimitive("builtin_car")}}

KindTables == UNION { [1..n -> KindRows] : n \in 0..MaxRows }

\* The value of (lambda (r) (cdr r)).
CdrOfRow == Probe(parse(T_group_by_cdr).out[1].list[3]).res.val

GroupByCall(func, rows) ==
    builtin_group_by(<<cons_onto(rows, ValueNil), func>>,
                     St(env, <<>>, IdentityHash))

\* C30: group-by groups by the text of the key: keys of different kinds with
\* one text share a group, every key of the result is a String, a key of
\* any other kind gives TypeError at the first such row of the table, and
\* on an empty table the result is Nil with the key function neither
\* applied nor checked.
C30_GroupByKeys ==
    /\ GroupByDone =>
          GroupByOutcome(Probe(sexprs[1].list[3]).res.val, Spine(TheTable),
                         Ended,
                         FirstStop(Probe(sexprs[1].list[3]).res.val,
                                   Spine(TheTable)))
    /\ (GroupByDone /\ TheTable = ValueNil) =>
          pc = "ok" /\ result = ValueNil
    /\ (GroupByDone /\ TheTable = ValueNil /\ text = T_group_by_7) =>
          \A rows \in KindTables :
              GroupByOutcome(CdrOfRow, rows, GroupByCall(CdrOfRow, rows),
                             FirstStop(CdrOfRow, rows))

\* ((a . 1) ("a" . 2)) grouped by car is one group under the String "a":
\* the Symbol a and the String "a" are one key.
C30_Witness ==
    /\ GroupByDone
    /\ text = T_group_by_car
    /\ pc = "ok"
    /\ Spine(TheTable) = <<Row_sym_1, Row_a_2>>
    /\ result = ValueCons(ValueCons(ValueString(<<"a">>), TheTable), ValueNil)
====
